---------------------------- MODULE Spec2Model ----------------------------
(***************************************************************************)
(* A model of reconcile_accounts (src/reconcile_accounts.py): the record   *)
(* normalizer, the date parser, the key builder, the two indices, the      *)
(* matcher find_and_mark and the two passes of the reconciler; of the      *)
(* generator last_lines (src/last_lines.py); and of the descriptor         *)
(* computed_property (src/computed_property.py).                           *)
(*                                                                         *)
(* A Python str is a sequence of one-character strings; None is the        *)
(* record NoneCell; a raw row is [isSeq, cells], isSeq = FALSE standing    *)
(* for any value that is neither a list nor a tuple.                       *)
(***************************************************************************)
EXTENDS Integers, Sequences, FiniteSets, TLC

VARIABLES
    transactions_a,  \* the caller's ledger A (raw rows), never written
    transactions_b,  \* the caller's ledger B (raw rows), never written
    processed_a,     \* list of [original_row, status, matched] for A
    processed_b,     \* the same for B
    indexed_a,       \* key -> sequence of <<date, idx>> over processed_a
    indexed_b,       \* key -> sequence of <<date, idx>> over processed_b
    pc,              \* the statement reconcile_accounts is at ("error": an
                     \* exception left the function, "done": it returned)
    i,               \* position of the running for loop (1-based)
    result_a,        \* the returned list for A (<<>> until built)
    result_b,        \* the returned list for B
    calls,           \* history: one record per find_and_mark call of the run
    run,             \* history: number of the current call of reconcile_accounts
    first_result,    \* history: what the previous call returned
    file_bytes,      \* last_lines: the bytes of the file, never written
    buffer_size,     \* last_lines: the argument buffer_size
    remaining,       \* last_lines: bytes of the file not read yet
    carry,           \* last_lines: bytes carried to the next block
    ll_pc,           \* last_lines: "idle", "loop" (line 17) or "done"
    yielded,         \* history: the lines last_lines has yielded, in order
    declaration,     \* computed_property: the class statement that uses it
    cp_pc,           \* computed_property: where that class statement is
    descriptor,      \* computed_property: the descriptor's slots that are
                     \* set, a function from their names to their values
    instance,        \* computed_property: the instance's attributes, a
                     \* function from the names that are set to their values
    ops,             \* history: operations on the instance so far
    func_calls,      \* history: calls of the decorated function so far
    computed_for,    \* history: the last such call, its dependency values
                     \* and what it returned
    touched,         \* history: the property was set or deleted since then
    last_op          \* history: the last operation on the instance

\* the variables of last_lines
ll_vars == <<file_bytes, buffer_size, remaining, carry, ll_pc, yielded>>

\* the variables of the instance that holds a computed_property
cp_vars == <<declaration, cp_pc, descriptor, instance, ops, func_calls,
            computed_for, touched, last_op>>

vars == <<transactions_a, transactions_b, processed_a, processed_b,
          indexed_a, indexed_b, pc, i, result_a, result_b, calls, run,
          first_result, ll_vars, cp_vars>>

-----------------------------------------------------------------------------
(* Bounds of the model. *)

\* Longest ledger drawn by Init.
MaxLen == 2

\* Number of consecutive calls of reconcile_accounts on the same ledgers.
MaxRuns == 2

-----------------------------------------------------------------------------
(* Characters and strings. *)

UpperChars == <<"A","B","C","D","E","F","G","H","I","J","K","L","M",
                "N","O","P","Q","R","S","T","U","V","W","X","Y","Z">>

LowerChars == <<"a","b","c","d","e","f","g","h","i","j","k","l","m",
                "n","o","p","q","r","s","t","u","v","w","x","y","z">>

DigitChars == <<"0","1","2","3","4","5","6","7","8","9">>

\* the value of each decimal digit
DigitValues == [c \in {DigitChars[k] : k \in 1..10} |->
                   (CHOOSE k \in 1..10 : DigitChars[k] = c) - 1]

IsDigit(c) == c \in DOMAIN DigitValues

DigitVal(c) == DigitValues[c]

\* str.isspace for the characters of the model
IsSpace(c) == c \in {" ", "\t", "\n", "\r"}

\* the lower-case letter of each upper-case letter
ToLower == [c \in {UpperChars[k] : k \in 1..26} |->
               LowerChars[CHOOSE k \in 1..26 : UpperChars[k] = c]]

\* one character of str.lower()
LowerChar(c) == IF c \in DOMAIN ToLower THEN ToLower[c] ELSE c

\* str.lower()
Lower(s) == [k \in 1..Len(s) |-> LowerChar(s[k])]

\* the first position from k on that holds no whitespace (Len(s) + 1: none)
RECURSIVE FirstKept(_, _)
FirstKept(s, k) ==
    IF k > Len(s) THEN k
    ELSE IF IsSpace(s[k]) THEN FirstKept(s, k + 1) ELSE k

\* the last position up to k that holds no whitespace (0: none)
RECURSIVE LastKept(_, _)
LastKept(s, k) ==
    IF k = 0 THEN k
    ELSE IF IsSpace(s[k]) THEN LastKept(s, k - 1) ELSE k

\* str.strip(): drop the leading and the trailing whitespace
Strip(s) == SubSeq(s, FirstKept(s, 1), LastKept(s, Len(s)))

\* the value of the first n characters of a string of decimal digits
RECURSIVE DigitsValTo(_, _)
DigitsValTo(s, n) ==
    IF n = 0 THEN 0 ELSE 10 * DigitsValTo(s, n - 1) + DigitVal(s[n])

\* the value of a string of decimal digits
DigitsVal(s) == DigitsValTo(s, Len(s))

AllDigits(s) == \A k \in 1..Len(s) : IsDigit(s[k])

\* str(n) for a natural number n
RECURSIVE NatToStr(_)
NatToStr(n) ==
    IF n < 10 THEN <<DigitChars[n + 1]>>
    ELSE NatToStr(n \div 10) \o <<DigitChars[(n % 10) + 1]>>

\* the first position from k on that holds sep (Len(s) + 1: none)
RECURSIVE Find(_, _, _)
Find(s, sep, k) ==
    IF k > Len(s) THEN k
    ELSE IF s[k] = sep THEN k ELSE Find(s, sep, k + 1)

\* the parts of s from position k on, p being the next separator
RECURSIVE SplitFrom(_, _, _, _)
SplitFrom(s, sep, k, p) ==
    IF p > Len(s) THEN <<SubSeq(s, k, Len(s))>>
    ELSE <<SubSeq(s, k, p - 1)>> \o SplitFrom(s, sep, p + 1, Find(s, sep, p + 1))

\* s.split(sep) for a one-character separator
Split(s, sep) == SplitFrom(s, sep, 1, Find(s, sep, 1))

-----------------------------------------------------------------------------
(* datetime.strptime(s, "%Y-%m-%d").date(), as parse_date uses it.  A date  *)
(* is modelled by its proleptic Gregorian ordinal (date.toordinal()), so    *)
(* (d1 - d2).days is the difference of two ordinals and the order of dates  *)
(* is the order of ordinals.                                                *)

\* parse_date's None
NoneDate == 0

IsLeap(y) == (y % 4 = 0) /\ ((y % 100 # 0) \/ (y % 400 = 0))

\* the days of each month of a common year
MonthDays == <<31, 28, 31, 30, 31, 30, 31, 31, 30, 31, 30, 31>>

\* the days before each month of a common year
MonthStarts == <<0, 31, 59, 90, 120, 151, 181, 212, 243, 273, 304, 334>>

DaysInMonth(y, m) == IF m = 2 /\ IsLeap(y) THEN 29 ELSE MonthDays[m]

DaysBeforeYear(y) ==
    (y - 1) * 365 + ((y - 1) \div 4) - ((y - 1) \div 100) + ((y - 1) \div 400)

DaysBeforeMonth(y, m) ==
    MonthStarts[m] + (IF m > 2 /\ IsLeap(y) THEN 1 ELSE 0)

ToOrdinal(y, m, d) == DaysBeforeYear(y) + DaysBeforeMonth(y, m) + d

\* %Y: exactly four digits
MatchesYear(s) == Len(s) = 4 /\ AllDigits(s)

\* %m: 1[0-2] | 0[1-9] | [1-9]
MatchesMonth(s) ==
    /\ Len(s) \in {1, 2}
    /\ AllDigits(s)
    /\ DigitsVal(s) \in 1..12

\* %d: 3[0-1] | [1-2]\d | 0[1-9] | [1-9] | " "[1-9]
MatchesDay(s) ==
    \/ /\ Len(s) \in {1, 2}
       /\ AllDigits(s)
       /\ DigitsVal(s) \in 1..31
    \/ /\ Len(s) = 2
       /\ s[1] = " "
       /\ IsDigit(s[2])
       /\ DigitVal(s[2]) \in 1..9

DayVal(s) == IF s[1] = " " THEN DigitVal(s[2]) ELSE DigitsVal(s)

\* the date constructor: the ordinal, or NoneDate where it raises ValueError
\* (year 0, or a day the month does not have)
DateOfYMD(y, m, d) ==
    IF y >= 1 /\ d <= DaysInMonth(y, m) THEN ToOrdinal(y, m, d) ELSE NoneDate

\* strptime on the three parts between the hyphens of "%Y-%m-%d"
DateOfParts(parts) ==
    IF /\ Len(parts) = 3
       /\ MatchesYear(parts[1])
       /\ MatchesMonth(parts[2])
       /\ MatchesDay(parts[3])
    THEN DateOfYMD(DigitsVal(parts[1]), DigitsVal(parts[2]), DayVal(parts[3]))
    ELSE NoneDate

\* parse_date: the ordinal of the date, or NoneDate where strptime (or the
\* date constructor) raises ValueError
parse_date(date_str) == DateOfParts(Split(Strip(date_str), "-"))

-----------------------------------------------------------------------------
(* normalize_row *)

\* the number of columns of a normalized row
NumFields == 4

NoneCell == [isNone |-> TRUE, str |-> <<>>]

Cell(s) == [isNone |-> FALSE, str |-> s]

\* a raw row that is a list or a tuple of cells
RowOf(cells) == [isSeq |-> TRUE, cells |-> cells]

\* a raw row that is neither a list nor a tuple
NotARow == [isSeq |-> FALSE, cells |-> <<>>]

\* A faulty normalize_row: the padding of line 31 left out, so that a short
\* row stays short.
normalize_row_unpadded(row) ==
    LET cells == IF row.isSeq THEN row.cells ELSE <<>>
        kept  == SubSeq(cells, 1, IF Len(cells) < NumFields THEN Len(cells)
                                  ELSE NumFields)
    IN  [k \in 1..Len(kept) |->
            IF kept[k].isNone THEN <<>> ELSE Strip(kept[k].str)]

\* normalize_row: exactly NumFields stripped strings
normalize_row(row) ==
    LET cells  == IF row.isSeq THEN row.cells ELSE <<>>
        padded == SubSeq(cells \o [k \in 1..NumFields |-> Cell(<<>>)],
                         1, NumFields)
    IN  [k \in 1..NumFields |->
            IF padded[k].isNone THEN <<>> ELSE Strip(padded[k].str)]

-----------------------------------------------------------------------------
(* create_index_key.  float(s) is modelled for the strings of the grammar  *)
(*   [+-] digits [ . [digits] ]  |  [+-] . digits  |  [+-] inf|infinity|nan *)
(* (exponents and digit-group underscores are not in the alphabet of the   *)
(* model's amounts).  A finite value is held exactly, as whole units and   *)
(* millionths, which is what ".6f" prints for an amount of at most six     *)
(* decimals (every amount of the model; beyond six decimals the printed    *)
(* digit depends on the binary double nearest to the literal).             *)

\* the number of decimals of the format ".6f"
KeyDecimals == 6

RECURSIVE Pow10(_)
Pow10(n) == IF n = 0 THEN 1 ELSE 10 * Pow10(n - 1)

NotAFloat == [ok |-> FALSE, kind |-> "none", neg |-> FALSE, whole |-> 0, micro |-> 0]

\* n / q rounded to the nearest integer, a tie to even
RoundHalfEven(n, q) ==
    LET lo == n \div q
        r2 == 2 * (n % q)
    IN  IF r2 > q \/ (r2 = q /\ lo % 2 = 1) THEN lo + 1 ELSE lo

\* the fraction 0.n of f digits, in millionths
Millionths(n, f) ==
    IF f <= KeyDecimals
    THEN n * Pow10(KeyDecimals - f)
    ELSE RoundHalfEven(n, Pow10(f - KeyDecimals))

\* the finite float of sign neg, whole units and m millionths (m may carry)
Finite(neg, whole, m) ==
    [ok |-> TRUE, kind |-> "num", neg |-> neg,
     whole |-> whole + (m \div Pow10(KeyDecimals)),
     micro |-> m % Pow10(KeyDecimals)]

\* digits [ . [digits] ] | . digits, split at the point
ParseDecimal(parts, neg) ==
    IF /\ Len(parts) \in {1, 2}
       /\ \A k \in 1..Len(parts) : AllDigits(parts[k])
       /\ \E k \in 1..Len(parts) : parts[k] # <<>>
    THEN Finite(neg, DigitsVal(parts[1]),
                IF Len(parts) = 2
                THEN Millionths(DigitsVal(parts[2]), Len(parts[2]))
                ELSE 0)
    ELSE NotAFloat

\* inf | infinity | nan in any letter case
ParseSpecial(low, neg) ==
    IF low = <<"n","a","n">>
    THEN [ok |-> TRUE, kind |-> "nan", neg |-> FALSE, whole |-> 0, micro |-> 0]
    ELSE IF low \in {<<"i","n","f">>, <<"i","n","f","i","n","i","t","y">>}
    THEN [ok |-> TRUE, kind |-> "inf", neg |-> neg, whole |-> 0, micro |-> 0]
    ELSE NotAFloat

IsLetter(c) == LowerChar(c) \in {LowerChars[k] : k \in 1..26}

\* the unsigned part of a float literal
ParseUnsigned(s, neg) ==
    IF s # <<>> /\ IsLetter(s[1])
    THEN ParseSpecial(Lower(s), neg)
    ELSE ParseDecimal(Split(s, "."), neg)

\* float() on a stripped string: an optional sign, then the literal
ParseStripped(t) ==
    IF t = <<>> THEN NotAFloat
    ELSE ParseUnsigned(IF t[1] \in {"+", "-"} THEN SubSeq(t, 2, Len(t)) ELSE t,
                       t[1] = "-")

\* float(s)
ParseFloat(s) == ParseStripped(Strip(s))

\* n as exactly w digits, zero-padded on the left
RECURSIVE ZeroPad(_, _)
ZeroPad(n, w) ==
    IF w = 0 THEN <<>> ELSE ZeroPad(n \div 10, w - 1) \o <<DigitChars[(n % 10) + 1]>>

\* f"{x:.6f}"
FormatFixed(x) ==
    LET sign == IF x.neg THEN <<"-">> ELSE <<>>
    IN  IF x.kind = "inf" THEN sign \o <<"i","n","f">>
        ELSE IF x.kind = "nan" THEN <<"n","a","n">>
        ELSE sign \o NatToStr(x.whole) \o <<".">> \o ZeroPad(x.micro, KeyDecimals)

\* lines 54-57: the amount rendered, or the raw string where float() raised
\* ValueError
RenderedOr(x, raw) == IF x.ok THEN FormatFixed(x) ELSE raw

\* the second component of the key
normalized_value_str(s) == RenderedOr(ParseFloat(s), s)

\* A faulty create_index_key: the lower() of line 61 left out.
create_index_key_cased(row) ==
    <<Lower(row[2]), normalized_value_str(row[3]), row[4]>>

\* create_index_key(row) = (row[1].lower(), normalized value, row[3].lower()),
\* the row's fields being numbered from 0 in the source and from 1 here
create_index_key(row) ==
    <<Lower(row[2]), normalized_value_str(row[3]), Lower(row[4])>>

-----------------------------------------------------------------------------
(* The entries and the indices of reconcile_accounts. *)

FOUND == <<"F","O","U","N","D">>

MISSING == <<"M","I","S","S","I","N","G">>

\* one element of processed_a / processed_b as lines 47-50 build it
NewEntry(row) ==
    [original_row |-> normalize_row(row), status |-> MISSING, matched |-> FALSE]

\* the list comprehension of lines 47-50
Preprocessed(transactions) ==
    [k \in 1..Len(transactions) |-> NewEntry(transactions[k])]

\* defaultdict(list) with no key
EmptyIndex == [key \in {} |-> <<>>]

\* line 71: indexed[key].append(item), the bucket created when missing
Appended(index, key, item) ==
    IF key \in DOMAIN index
    THEN [index EXCEPT ![key] = Append(@, item)]
    ELSE [k \in (DOMAIN index) \cup {key} |->
             IF k = key THEN <<item>> ELSE index[k]]

\* lines 69-71: an entry with a parseable date goes into its key's bucket
WithDated(index, date, row, idx) ==
    IF date # NoneDate
    THEN Appended(index, create_index_key(row), <<date, idx>>)
    ELSE index

\* the loop of lines 66-71 over the entries 1..n
RECURSIVE IndexUpTo(_, _)
IndexUpTo(processed, n) ==
    IF n = 0 THEN EmptyIndex
    ELSE WithDated(IndexUpTo(processed, n - 1),
                   parse_date(processed[n].original_row[1]),
                   processed[n].original_row, n)

\* A faulty InsertByDate, of a sort that is not stable: x goes before the
\* elements of its own date.
InsertByDateBeforeEqual(sorted, x) ==
    LET before == {k \in 1..Len(sorted) : sorted[k][1] < x[1]}
        n      == Cardinality(before)
    IN  SubSeq(sorted, 1, n) \o <<x>> \o SubSeq(sorted, n + 1, Len(sorted))

\* one insertion of a stable sort on the date: x goes after every element
\* whose date is not greater
InsertByDate(sorted, x) ==
    LET before == {k \in 1..Len(sorted) : sorted[k][1] <= x[1]}
        n      == Cardinality(before)
    IN  SubSeq(sorted, 1, n) \o <<x>> \o SubSeq(sorted, n + 1, Len(sorted))

\* A faulty SortByDate: line 73 left out, the bucket stays in list order.
SortByDateKeepsOrder(bucket) == bucket

\* list.sort(key=lambda x: x[0]): stable, by date ascending
RECURSIVE SortByDate(_)
SortByDate(bucket) ==
    IF bucket = <<>> THEN <<>>
    ELSE InsertByDate(SortByDate(SubSeq(bucket, 1, Len(bucket) - 1)),
                      bucket[Len(bucket)])

\* lines 72-73: every bucket sorted
SortBuckets(index) == [key \in DOMAIN index |-> SortByDate(index[key])]

\* A faulty BuildIndex: the loop of line 66 stops one entry short, the
\* last entry of the ledger is in no bucket.
BuildIndexWithoutLast(processed) ==
    SortBuckets(IndexUpTo(processed,
                          IF processed = <<>> THEN 0 ELSE Len(processed) - 1))

\* lines 65-73 (and 75-83): the index of one ledger
BuildIndex(processed) == SortBuckets(IndexUpTo(processed, Len(processed)))

-----------------------------------------------------------------------------
(* find_and_mark *)

\* the tolerance of line 99, in days
DateTolerance == 1

\* find_and_mark found no target
NoTarget == 0

Abs(n) == IF n < 0 THEN -n ELSE n

\* A faulty Acceptable: the test of line 97 left out, so that a target
\* already matched is accepted again.
AcceptableAnyTarget(source_date, target_date, target_entry) ==
    Abs(source_date - target_date) <= DateTolerance

\* A faulty Acceptable: the tolerance of line 99 left out, only a candidate
\* of the source's own date is accepted.
AcceptableSameDay(source_date, target_date, target_entry) ==
    /\ ~target_entry.matched
    /\ source_date = target_date

\* A faulty Acceptable: the abs() of line 98 left out.
AcceptableSigned(source_date, target_date, target_entry) ==
    /\ ~target_entry.matched
    /\ source_date - target_date <= DateTolerance

\* lines 97-99: the candidate is open and its date is within the tolerance
Acceptable(source_date, target_date, target_entry) ==
    /\ ~target_entry.matched
    /\ Abs(source_date - target_date) <= DateTolerance

\* A faulty ScanBucket: the loop gives up at the first candidate it does
\* not accept (a return 'MISSING' inside the loop).
ScanBucketFirstOnly(bucket, k, source_date, target_processed_list) ==
    IF k > Len(bucket) THEN NoTarget
    ELSE IF Acceptable(source_date, bucket[k][1],
                       target_processed_list[bucket[k][2]])
         THEN bucket[k][2]
         ELSE NoTarget

\* the for loop of lines 96-105 from position k of the bucket: the index of
\* the first acceptable target, or NoTarget when the bucket is exhausted
RECURSIVE ScanBucket(_, _, _, _)
ScanBucket(bucket, k, source_date, target_processed_list) ==
    IF k > Len(bucket) THEN NoTarget
    ELSE LET target_date == bucket[k][1]
             target_idx  == bucket[k][2]
         IN  IF Acceptable(source_date, target_date,
                           target_processed_list[target_idx])
             THEN target_idx
             ELSE ScanBucket(bucket, k + 1, source_date, target_processed_list)

\* A faulty FindForKey: the key of line 93 is not looked up, the bucket of
\* some key of the index is scanned.
FindForKeyAnyBucket(key, source_date, target_indexed_data, target_processed_list) ==
    IF DOMAIN target_indexed_data = {} THEN NoTarget
    ELSE ScanBucket(target_indexed_data[CHOOSE other \in DOMAIN target_indexed_data : TRUE],
                    1, source_date, target_processed_list)

\* lines 93-105: the lookup of the key and the scan of its bucket
FindForKey(key, source_date, target_indexed_data, target_processed_list) ==
    IF key \notin DOMAIN target_indexed_data THEN NoTarget
    ELSE ScanBucket(target_indexed_data[key], 1, source_date,
                    target_processed_list)

\* A faulty FindForDate: a source whose date did not parse is not turned
\* away by lines 89-90 but takes the first open candidate of its key.
FindForDateAnyDay(source_date, source_row, target_indexed_data, target_processed_list) ==
    IF source_date # NoneDate
    THEN FindForKey(create_index_key(source_row), source_date,
                    target_indexed_data, target_processed_list)
    ELSE IF create_index_key(source_row) \notin DOMAIN target_indexed_data
    THEN NoTarget
    ELSE LET bucket == target_indexed_data[create_index_key(source_row)]
             open   == {k \in 1..Len(bucket) :
                           ~target_processed_list[bucket[k][2]].matched}
         IN  IF open = {} THEN NoTarget
             ELSE bucket[CHOOSE k \in open : \A m \in open : k <= m][2]

\* lines 89-105: no lookup for a source whose date did not parse
FindForDate(source_date, source_row, target_indexed_data, target_processed_list) ==
    IF source_date = NoneDate THEN NoTarget
    ELSE FindForKey(create_index_key(source_row), source_date,
                    target_indexed_data, target_processed_list)

\* lines 87-105 up to the marking: the target find_and_mark accepts for the
\* source, or NoTarget where it returns 'MISSING'
FindTarget(source_entry, target_indexed_data, target_processed_list) ==
    FindForDate(parse_date(source_entry.original_row[1]),
                source_entry.original_row,
                target_indexed_data, target_processed_list)

\* A faulty Marked: the status set, the flag of lines 101 and 103 forgotten.
MarkedStatusOnly(entry) == [entry EXCEPT !.status = FOUND]

\* lines 100-101 and 102-103: an entry marked
Marked(entry) == [entry EXCEPT !.status = FOUND, !.matched = TRUE]

\* the source's list after find_and_mark on its entry idx with target t
SourceAfter(source_list, idx, t) ==
    IF t = NoTarget THEN source_list
    ELSE [source_list EXCEPT ![idx] = Marked(@)]

\* A faulty TargetAfter: lines 102-103 left out, the target is not marked.
TargetAfterUnmarked(target_list, t) == target_list

\* the target's list after find_and_mark accepted t
TargetAfter(target_list, t) ==
    IF t = NoTarget THEN target_list
    ELSE [target_list EXCEPT ![t] = Marked(@)]

\* the history record of one call of find_and_mark
Call(phase, idx, t) ==
    [phase |-> phase, source |-> idx, target |-> t,
     outcome |-> IF t = NoTarget THEN MISSING ELSE FOUND]

\* A faulty NeedsCall: the guard of lines 109 and 114 left out.
NeedsCallAlways(entry) == TRUE

\* the guard of lines 109 and 114
NeedsCall(entry) == ~entry.matched

-----------------------------------------------------------------------------
(* The strings the inputs are made of. *)

\* "Sales"
S_Sales == <<"S","a","l","e","s">>

\* "SALES"
S_SALES == <<"S","A","L","E","S">>

\* "sales"
S_sales == <<"s","a","l","e","s">>

\* "Ops"
S_Ops == <<"O","p","s">>

\* "Ops "
S_OpsSp == <<"O","p","s"," ">>

\* "Alice"
S_Alice == <<"A","l","i","c","e">>

\* "ALICE"
S_ALICE == <<"A","L","I","C","E">>

\* "Bob"
S_Bob == <<"B","o","b">>

\* "100"
S_100 == <<"1","0","0">>

\* "100.00"
S_100_00 == <<"1","0","0",".","0","0">>

\* "100.0"
S_100_0 == <<"1","0","0",".","0">>

\* "99.5"
S_99_5 == <<"9","9",".","5">>

\* "abc"
S_abc == <<"a","b","c">>

\* "ABC"
S_ABC == <<"A","B","C">>

\* "0"
S_0 == <<"0">>

\* "-0"
S_Neg0 == <<"-","0">>

\* "nan"
S_nan == <<"n","a","n">>

\* "NaN"
S_NaN == <<"N","a","N">>

\* " 100 "
S_Sp100Sp == <<" ","1","0","0"," ">>

\* "1.2.3"
S_1_2_3 == <<"1",".","2",".","3">>

\* "extra"
S_extra == <<"e","x","t","r","a">>

\* ""
S_Empty == <<>>

\* " <TAB>"
S_Blank == <<" ","\t">>

\* "2024-01-01"
D_2024_01_01 == <<"2","0","2","4","-","0","1","-","0","1">>

\* "2024-01-02"
D_2024_01_02 == <<"2","0","2","4","-","0","1","-","0","2">>

\* "2024-01-03"
D_2024_01_03 == <<"2","0","2","4","-","0","1","-","0","3">>

\* "2024-01-04"
D_2024_01_04 == <<"2","0","2","4","-","0","1","-","0","4">>

\* "2024-1-2"
D_2024_1_2 == <<"2","0","2","4","-","1","-","2">>

\* "2024-01-31"
D_2024_01_31 == <<"2","0","2","4","-","0","1","-","3","1">>

\* "2024-02-01"
D_2024_02_01 == <<"2","0","2","4","-","0","2","-","0","1">>

\* "2024-02-28"
D_2024_02_28 == <<"2","0","2","4","-","0","2","-","2","8">>

\* "2024-02-29"
D_2024_02_29 == <<"2","0","2","4","-","0","2","-","2","9">>

\* "2024-03-01"
D_2024_03_01 == <<"2","0","2","4","-","0","3","-","0","1">>

\* "2023-02-28"
D_2023_02_28 == <<"2","0","2","3","-","0","2","-","2","8">>

\* "2023-03-01"
D_2023_03_01 == <<"2","0","2","3","-","0","3","-","0","1">>

\* "2023-12-31"
D_2023_12_31 == <<"2","0","2","3","-","1","2","-","3","1">>

\* "2024-02-30"
D_2024_02_30 == <<"2","0","2","4","-","0","2","-","3","0">>

\* " 2024-01-02 "
D_Sp2024_01_02Sp == <<" ","2","0","2","4","-","0","1","-","0","2"," ">>

\* "2024/01/02"
D_slashes == <<"2","0","2","4","/","0","1","/","0","2">>

-----------------------------------------------------------------------------
(* The inputs Init draws from. *)

\* a well-shaped raw row
Row4(date, department, amount, beneficiary) ==
    RowOf(<<Cell(date), Cell(department), Cell(amount), Cell(beneficiary)>>)

SeqsUpTo(S, n) == UNION {[1..k -> S] : k \in 0..n}

\* Ledger rows: three days of one key written three ways, a date of that
\* key that is no date, and a short row of another key with blanks to strip
\* and a None cell.
Rows ==
    { Row4(D_2024_01_01, S_Sales, S_100_00, S_Alice),
      Row4(D_2024_01_02, S_sales, S_100, S_ALICE),
      Row4(D_2024_01_03, S_Sales, S_100_0, S_Alice),
      Row4(D_2024_02_30, S_Sales, S_100_00, S_Alice),
      RowOf(<<Cell(D_Sp2024_01_02Sp), Cell(S_OpsSp), NoneCell>>) }

\* Dates that parse, across a month end, a leap day and a year end.
PairDates ==
    { D_2024_01_01, D_2024_01_02, D_2024_1_2, D_2024_01_03, D_2024_01_04,
      D_2024_02_28, D_2024_02_29, D_2024_03_01,
      D_2023_02_28, D_2023_03_01, D_2023_12_31 }

\* One key written three ways.
PairKeys ==
    { <<S_Sales, S_100_00, S_Alice>>,
      <<S_SALES, S_100, S_ALICE>>,
      <<S_sales, S_Sp100Sp, S_Alice>> }

PairRows == {Row4(d, k[1], k[2], k[3]) : d \in PairDates, k \in PairKeys}

KeyDates == {D_2024_01_01, D_2024_01_02}

KeyDepartments == {S_Sales, S_SALES, S_Ops}

KeyAmounts ==
    {S_100, S_100_00, S_99_5, S_abc, S_ABC, S_0, S_Neg0, S_nan, S_NaN, S_Empty}

KeyBeneficiaries == {S_Alice, S_ALICE, S_Bob}

KeyRows ==
    {Row4(d, dep, am, ben) : d \in KeyDates, dep \in KeyDepartments,
                             am \in KeyAmounts, ben \in KeyBeneficiaries}

\* Raw rows of every shape: not a list, empty, short, long, None cells,
\* blank cells, a date and an amount that do not parse.
ShapeRows ==
    { NotARow,
      RowOf(<<>>),
      RowOf(<<Cell(D_2024_01_01)>>),
      RowOf(<<Cell(D_2024_01_01), Cell(S_Sales), Cell(S_100)>>),
      RowOf(<<NoneCell, NoneCell, NoneCell, NoneCell>>),
      RowOf(<<Cell(D_Sp2024_01_02Sp), NoneCell, Cell(S_Sp100Sp), Cell(S_Blank)>>),
      RowOf(<<Cell(D_2024_01_01), Cell(S_Sales), Cell(S_100), Cell(S_Alice),
              Cell(S_extra)>>),
      RowOf(<<Cell(D_2024_01_02), Cell(S_Sales), Cell(S_100_00), Cell(S_Alice),
              NoneCell, Cell(S_extra)>>),
      Row4(D_slashes, S_Sales, S_100, S_Alice),
      Row4(D_2024_01_01, S_Sales, S_1_2_3, S_Alice),
      Row4(D_2024_01_02, S_Sales, S_1_2_3, S_Alice),
      Row4(S_Empty, S_Empty, S_abc, S_Empty) }

\* Longest ledger of raw rows of every shape.
MaxShapeLen == 1

RerunRows ==
    { Row4(D_2024_01_01, S_Sales, S_100_00, S_Alice),
      Row4(D_2024_01_02, S_sales, S_100, S_ALICE),
      Row4(D_2024_01_03, S_Sales, S_100_0, S_Alice),
      Row4(D_2024_02_30, S_Sales, S_100_00, S_Alice) }

-----------------------------------------------------------------------------
(* reconcile_accounts as a state machine. *)

\* last_lines has not been called
LastLinesIdle ==
    /\ file_bytes = <<>>
    /\ buffer_size = 1
    /\ remaining = 0
    /\ carry = <<>>
    /\ ll_pc = "idle"
    /\ yielded = <<>>

\* no instance with a computed_property exists
ComputedIdle ==
    /\ declaration = <<>>
    /\ cp_pc = "idle"
    /\ descriptor = <<>>
    /\ instance = <<>>
    /\ ops = 0
    /\ func_calls = 0
    /\ computed_for = <<>>
    /\ touched = FALSE
    /\ last_op = <<>>

\* the state on entry to reconcile_accounts(ledger_a, ledger_b)
Entered(ledger_a, ledger_b) ==
    /\ LastLinesIdle
    /\ ComputedIdle
    /\ transactions_a = ledger_a
    /\ transactions_b = ledger_b
    /\ processed_a = <<>>
    /\ processed_b = <<>>
    /\ indexed_a = EmptyIndex
    /\ indexed_b = EmptyIndex
    /\ pc = "preprocess"
    /\ i = 0
    /\ result_a = <<>>
    /\ result_b = <<>>
    /\ calls = <<>>
    /\ run = 1
    /\ first_result = <<>>

Init ==
    \E ledger_a \in SeqsUpTo(Rows, MaxLen), ledger_b \in SeqsUpTo(Rows, MaxLen) :
        Entered(ledger_a, ledger_b)

InitPair ==
    \E a \in PairRows, b \in PairRows : Entered(<<a>>, <<b>>)

InitKey ==
    \E a \in KeyRows, b \in KeyRows : Entered(<<a>>, <<b>>)

InitShape ==
    \E ledger_a \in SeqsUpTo(ShapeRows, MaxShapeLen),
       ledger_b \in SeqsUpTo(ShapeRows, MaxShapeLen) :
        Entered(ledger_a, ledger_b)

InitRerun ==
    \E ledger_a \in SeqsUpTo(RerunRows, MaxLen),
       ledger_b \in SeqsUpTo(RerunRows, MaxLen) :
        Entered(ledger_a, ledger_b)

\* lines 47-50
Preprocess ==
    /\ pc = "preprocess"
    /\ processed_a' = Preprocessed(transactions_a)
    /\ processed_b' = Preprocessed(transactions_b)
    /\ pc' = "index_b"
    /\ UNCHANGED <<transactions_a, transactions_b, indexed_a, indexed_b, i,
                   result_a, result_b, calls, run, first_result>>
    /\ UNCHANGED <<ll_vars, cp_vars>>

\* row[0] (lines 68, 78) and row[1..3] (lines 55-61) raise IndexError on a
\* row that is too short for them
RaisesIndexError(processed) ==
    \E k \in 1..Len(processed) :
        LET row == processed[k].original_row
        IN  \/ Len(row) < 1
            \/ parse_date(row[1]) # NoneDate /\ Len(row) < NumFields

\* lines 65-73
IndexB ==
    /\ pc = "index_b"
    /\ IF RaisesIndexError(processed_b)
       THEN pc' = "error" /\ UNCHANGED indexed_b
       ELSE indexed_b' = BuildIndex(processed_b) /\ pc' = "index_a"
    /\ UNCHANGED <<transactions_a, transactions_b, processed_a, processed_b,
                   indexed_a, i, result_a, result_b, calls, run, first_result>>
    /\ UNCHANGED <<ll_vars, cp_vars>>

\* lines 75-83, and the entry into the loop of line 108
IndexA ==
    /\ pc = "index_a"
    /\ IF RaisesIndexError(processed_a)
       THEN pc' = "error" /\ UNCHANGED <<indexed_a, i>>
       ELSE indexed_a' = BuildIndex(processed_a) /\ pc' = "pass1" /\ i' = 1
    /\ UNCHANGED <<transactions_a, transactions_b, processed_a, processed_b,
                   indexed_b, result_a, result_b, calls, run, first_result>>
    /\ UNCHANGED <<ll_vars, cp_vars>>

\* the effect of find_and_mark(a_entry, indexed_b, processed_b) accepting t
MarkAB(t) ==
    /\ processed_a' = SourceAfter(processed_a, i, t)
    /\ processed_b' = TargetAfter(processed_b, t)
    /\ calls' = Append(calls, Call(1, i, t))

\* the effect of find_and_mark(b_entry, indexed_a, processed_a) accepting t
MarkBA(t) ==
    /\ processed_b' = SourceAfter(processed_b, i, t)
    /\ processed_a' = TargetAfter(processed_a, t)
    /\ calls' = Append(calls, Call(2, i, t))

\* A faulty Pass1Step: the loop of line 108 runs over reversed(processed_a),
\* the last entry of A is served first.
Pass1StepReversed ==
    /\ pc = "pass1"
    /\ i <= Len(processed_a)
    /\ IF NeedsCall(processed_a[Len(processed_a) + 1 - i])
       THEN \E t \in {FindTarget(processed_a[Len(processed_a) + 1 - i],
                                 indexed_b, processed_b)} :
                /\ processed_a' = SourceAfter(processed_a,
                                              Len(processed_a) + 1 - i, t)
                /\ processed_b' = TargetAfter(processed_b, t)
                /\ calls' = Append(calls, Call(1, Len(processed_a) + 1 - i, t))
       ELSE UNCHANGED <<processed_a, processed_b, calls>>
    /\ i' = i + 1
    /\ UNCHANGED <<transactions_a, transactions_b, indexed_a, indexed_b, pc,
                   result_a, result_b, run, first_result>>
    /\ UNCHANGED <<ll_vars, cp_vars>>

\* lines 108-110: one iteration of the first pass, with its call of
\* find_and_mark(a_entry, indexed_b, processed_b)
Pass1Step ==
    /\ pc = "pass1"
    /\ i <= Len(processed_a)
    /\ IF NeedsCall(processed_a[i])
       THEN MarkAB(FindTarget(processed_a[i], indexed_b, processed_b))
       ELSE UNCHANGED <<processed_a, processed_b, calls>>
    /\ i' = i + 1
    /\ UNCHANGED <<transactions_a, transactions_b, indexed_a, indexed_b, pc,
                   result_a, result_b, run, first_result>>
    /\ UNCHANGED <<ll_vars, cp_vars>>

\* the first loop ends, the loop of line 113 starts
Pass1End ==
    /\ pc = "pass1"
    /\ i > Len(processed_a)
    /\ pc' = "pass2"
    /\ i' = 1
    /\ UNCHANGED <<transactions_a, transactions_b, processed_a, processed_b,
                   indexed_a, indexed_b, result_a, result_b, calls, run,
                   first_result>>
    /\ UNCHANGED <<ll_vars, cp_vars>>

\* lines 113-115: one iteration of the second pass, with its call of
\* find_and_mark(b_entry, indexed_a, processed_a)
Pass2Step ==
    /\ pc = "pass2"
    /\ i <= Len(processed_b)
    /\ IF NeedsCall(processed_b[i])
       THEN MarkBA(FindTarget(processed_b[i], indexed_a, processed_a))
       ELSE UNCHANGED <<processed_a, processed_b, calls>>
    /\ i' = i + 1
    /\ UNCHANGED <<transactions_a, transactions_b, indexed_a, indexed_b, pc,
                   result_a, result_b, run, first_result>>
    /\ UNCHANGED <<ll_vars, cp_vars>>

\* the second loop ends
Pass2End ==
    /\ pc = "pass2"
    /\ i > Len(processed_b)
    /\ pc' = "result"
    /\ UNCHANGED <<transactions_a, transactions_b, processed_a, processed_b,
                   indexed_a, indexed_b, i, result_a, result_b, calls, run,
                   first_result>>
    /\ UNCHANGED <<ll_vars, cp_vars>>

\* A faulty ResultOf: the FOUND rows first, then the MISSING ones.
ResultOfFoundFirst(processed) ==
    LET rows   == [k \in 1..Len(processed) |->
                      Append(processed[k].original_row, processed[k].status)]
        found(r) == r[NumFields + 1] = FOUND
    IN  SelectSeq(rows, found) \o SelectSeq(rows, LAMBDA r : ~found(r))

\* lines 118-119: entry['original_row'] + [entry['status']]
ResultOf(processed) ==
    [k \in 1..Len(processed) |->
        Append(processed[k].original_row, processed[k].status)]

\* A faulty Return: the status appended to the caller's own rows
\* (row.append(status)) besides being returned.
ReturnInPlace ==
    /\ pc = "result"
    /\ result_a' = ResultOf(processed_a)
    /\ result_b' = ResultOf(processed_b)
    /\ transactions_a' =
           [k \in 1..Len(transactions_a) |->
               RowOf(Append(transactions_a[k].cells, Cell(processed_a[k].status)))]
    /\ transactions_b' =
           [k \in 1..Len(transactions_b) |->
               RowOf(Append(transactions_b[k].cells, Cell(processed_b[k].status)))]
    /\ pc' = "done"
    /\ UNCHANGED <<processed_a, processed_b, indexed_a, indexed_b, i, calls,
                   run, first_result>>
    /\ UNCHANGED <<ll_vars, cp_vars>>

\* lines 118-121
Return ==
    /\ pc = "result"
    /\ result_a' = ResultOf(processed_a)
    /\ result_b' = ResultOf(processed_b)
    /\ pc' = "done"
    /\ UNCHANGED <<transactions_a, transactions_b, processed_a, processed_b,
                   indexed_a, indexed_b, i, calls, run, first_result>>
    /\ UNCHANGED <<ll_vars, cp_vars>>

\* the caller calls reconcile_accounts again on the same two ledgers.  The
\* new call's locals are unbound in the program; here they keep what the
\* last call left, so that a read of a stale value would show.
Rerun ==
    /\ pc = "done"
    /\ run < MaxRuns
    /\ first_result' = <<result_a, result_b>>
    /\ run' = run + 1
    /\ calls' = <<>>
    /\ pc' = "preprocess"
    /\ UNCHANGED <<transactions_a, transactions_b, processed_a, processed_b,
                   indexed_a, indexed_b, i, result_a, result_b>>
    /\ UNCHANGED <<ll_vars, cp_vars>>

Next ==
    \/ Preprocess
    \/ IndexB
    \/ IndexA
    \/ Pass1Step
    \/ Pass1End
    \/ Pass2Step
    \/ Pass2End
    \/ Return

NextRerun == Next \/ Rerun

\* one call on ledgers of up to MaxLen rows
Spec == Init /\ [][Next]_vars

\* one call on two single-record ledgers of one key
SpecPair == InitPair /\ [][Next]_vars

\* one call on two single-record ledgers of any keys
SpecKey == InitKey /\ [][Next]_vars

\* one call on raw rows of every shape
SpecShape == InitShape /\ [][Next]_vars

\* MaxRuns calls in a row on the same ledgers
SpecRerun == InitRerun /\ [][NextRerun]_vars

-----------------------------------------------------------------------------
(* What the history says, and how a result row is read. *)

\* the pairs <<position in A, position in B>> that find_and_mark marked
MarkedPairs ==
    { IF calls[k].phase = 1
      THEN <<calls[k].source, calls[k].target>>
      ELSE <<calls[k].target, calls[k].source>> :
          k \in {j \in 1..Len(calls) : calls[j].target # NoTarget} }

\* the number of calls of find_and_mark that returned 'FOUND'
FoundCalls == Cardinality({k \in 1..Len(calls) : calls[k].target # NoTarget})

\* the status field of a result row
StatusOf(result_row) == result_row[NumFields + 1]

\* the positions of the FOUND rows of a result
FoundRows(result) == {k \in 1..Len(result) : StatusOf(result[k]) = FOUND}

\* the last call of find_and_mark
LastCall == calls[Len(calls)]

-----------------------------------------------------------------------------
(* C1.  When reconcile_accounts has returned, the pairs the matcher marked *)
(* are a bijection between the FOUND rows of result A and the FOUND rows   *)
(* of result B: every marked pair joins a FOUND row of A to a FOUND row of *)
(* B, every FOUND row of either result is in exactly one pair, no pair was *)
(* marked twice, and the two results have the same number of FOUND rows.   *)
C1_FoundBijection ==
    pc = "done" =>
        /\ \A p \in MarkedPairs :
               p[1] \in FoundRows(result_a) /\ p[2] \in FoundRows(result_b)
        /\ \A a \in FoundRows(result_a) :
               Cardinality({p \in MarkedPairs : p[1] = a}) = 1
        /\ \A b \in FoundRows(result_b) :
               Cardinality({p \in MarkedPairs : p[2] = b}) = 1
        /\ FoundCalls = Cardinality(MarkedPairs)
        /\ Cardinality(FoundRows(result_a)) = Cardinality(FoundRows(result_b))

\* C1's case: two pairs that cross (A1 with B2, A2 with B1).
C1_Witness ==
    /\ pc = "done"
    /\ MarkedPairs = {<<1, 2>>, <<2, 1>>}

(* C2.  For two single-record ledgers whose records have the same key and  *)
(* dates that parse: both rows are FOUND when the dates are 0 or 1 day     *)
(* apart, whichever is the later, and both are MISSING when they are 2 or  *)
(* more days apart.                                                        *)
C2_ToleranceBoundary ==
    (pc = "done" /\ Len(result_a) = 1 /\ Len(result_b) = 1) =>
        LET da == parse_date(result_a[1][1])
            db == parse_date(result_b[1][1])
        IN  (/\ da # NoneDate
             /\ db # NoneDate
             /\ create_index_key(result_a[1]) = create_index_key(result_b[1]))
            => IF da - db \in {-1, 0, 1}
               THEN StatusOf(result_a[1]) = FOUND /\ StatusOf(result_b[1]) = FOUND
               ELSE StatusOf(result_a[1]) = MISSING /\ StatusOf(result_b[1]) = MISSING

\* C2's case: A one day before B across the leap day's month end, FOUND.
C2_Witness ==
    /\ pc = "done"
    /\ result_a = <<<<D_2024_02_29, S_Sales, S_100_00, S_Alice, FOUND>>>>
    /\ result_b = <<<<D_2024_03_01, S_SALES, S_100, S_ALICE, FOUND>>>>

(* C3.  Each result has the length of its input ledger and keeps its       *)
(* order: result row i is the four normalized fields of input row i        *)
(* followed by the final status of entry i.                                *)
C3_LengthAndOrder ==
    pc = "done" =>
        /\ Len(result_a) = Len(transactions_a)
        /\ Len(result_b) = Len(transactions_b)
        /\ \A k \in 1..Len(transactions_a) :
               result_a[k] = Append(normalize_row(transactions_a[k]),
                                    processed_a[k].status)
        /\ \A k \in 1..Len(transactions_b) :
               result_b[k] = Append(normalize_row(transactions_b[k]),
                                    processed_b[k].status)

\* C3's case: a MISSING row before a FOUND one, the FOUND one a short raw
\* row that normalization padded and stripped.
C3_Witness ==
    /\ pc = "done"
    /\ Len(result_a) = 2
    /\ StatusOf(result_a[1]) = MISSING
    /\ StatusOf(result_a[2]) = FOUND
    /\ Len(transactions_a[2].cells) = 3
    /\ result_a[2] = <<D_2024_01_02, S_Ops, <<>>, <<>>, FOUND>>

(* C4.  In every state of a run, every entry's status is FOUND or MISSING  *)
(* and its matched flag is true exactly when its status is FOUND; every    *)
(* row of a result ends with FOUND or MISSING.                             *)
C4_StatusMatchesFlag ==
    /\ \A k \in 1..Len(processed_a) :
           /\ processed_a[k].status \in {FOUND, MISSING}
           /\ processed_a[k].matched <=> processed_a[k].status = FOUND
    /\ \A k \in 1..Len(processed_b) :
           /\ processed_b[k].status \in {FOUND, MISSING}
           /\ processed_b[k].matched <=> processed_b[k].status = FOUND
    /\ pc = "done" =>
           /\ \A k \in 1..Len(result_a) : StatusOf(result_a[k]) \in {FOUND, MISSING}
           /\ \A k \in 1..Len(result_b) : StatusOf(result_b[k]) \in {FOUND, MISSING}

\* C4's case: between two matcher calls, one entry FOUND and one MISSING in
\* each ledger.
C4_Witness ==
    /\ pc = "pass1"
    /\ i = 2
    /\ Len(processed_a) = 2
    /\ Len(processed_b) = 2
    /\ processed_a[1].matched
    /\ ~processed_a[2].matched
    /\ \E k \in 1..2 : processed_b[k].matched /\ ~processed_b[3 - k].matched

(* C5.  Over a run an entry that is matched stays matched and FOUND; a     *)
(* call of find_and_mark is made only for a source that is not matched,    *)
(* and accepts only a target that is not matched.                          *)
C5_Monotonic ==
    [][ /\ \A k \in 1..Len(processed_a) :
               processed_a[k].matched =>
                   processed_a'[k].matched /\ processed_a'[k].status = FOUND
        /\ \A k \in 1..Len(processed_b) :
               processed_b[k].matched =>
                   processed_b'[k].matched /\ processed_b'[k].status = FOUND
        /\ Len(calls') = Len(calls) + 1 =>
               LET c   == calls'[Len(calls')]
                   src == IF c.phase = 1 THEN processed_a ELSE processed_b
                   tgt == IF c.phase = 1 THEN processed_b ELSE processed_a
               IN  /\ ~src[c.source].matched
                   /\ c.target # NoTarget => ~tgt[c.target].matched
      ]_vars

\* C5's case: the second pass has gone past an entry of B that the first
\* pass matched without calling find_and_mark on it, and has then called it
\* on the next entry, whose only candidate is taken.
C5_Witness ==
    /\ pc = "pass2"
    /\ i = 3
    /\ processed_b[1].matched
    /\ calls # <<>>
    /\ LastCall = Call(2, 2, NoTarget)
    /\ \A k \in 1..Len(calls) : ~(calls[k].phase = 2 /\ calls[k].source = 1)
    /\ create_index_key(processed_b[2].original_row)
           = create_index_key(processed_b[1].original_row)

(* C6.  A call of find_and_mark either changes nothing (outcome MISSING)   *)
(* or changes exactly two entries, its source and one target of the other  *)
(* ledger, both from MISSING and unmatched to FOUND and matched (outcome   *)
(* FOUND); the other entries, the rows of all entries, the two indices and *)
(* the input ledgers are as before the call.                               *)
C6_CallFrame ==
    [][ Len(calls') = Len(calls) + 1 =>
            LET c       == calls'[Len(calls')]
                src     == IF c.phase = 1 THEN processed_a ELSE processed_b
                srcNew  == IF c.phase = 1 THEN processed_a' ELSE processed_b'
                tgt     == IF c.phase = 1 THEN processed_b ELSE processed_a
                tgtNew  == IF c.phase = 1 THEN processed_b' ELSE processed_a'
                open(e) == e.status = MISSING /\ ~e.matched
                shut(e) == e.status = FOUND /\ e.matched
            IN  /\ indexed_a' = indexed_a
                /\ indexed_b' = indexed_b
                /\ transactions_a' = transactions_a
                /\ transactions_b' = transactions_b
                /\ Len(srcNew) = Len(src)
                /\ Len(tgtNew) = Len(tgt)
                /\ \A k \in 1..Len(src) :
                       srcNew[k].original_row = src[k].original_row
                /\ \A k \in 1..Len(tgt) :
                       tgtNew[k].original_row = tgt[k].original_row
                /\ c.outcome \in {FOUND, MISSING}
                /\ c.outcome = MISSING => srcNew = src /\ tgtNew = tgt
                /\ c.outcome = FOUND =>
                       /\ c.target \in 1..Len(tgt)
                       /\ open(src[c.source]) /\ shut(srcNew[c.source])
                       /\ open(tgt[c.target]) /\ shut(tgtNew[c.target])
                       /\ \A k \in 1..Len(src) :
                              k # c.source => srcNew[k] = src[k]
                       /\ \A k \in 1..Len(tgt) :
                              k # c.target => tgtNew[k] = tgt[k]
      ]_vars

\* C6's case: a call has just returned FOUND in ledgers of two entries
\* each, and the other entry of each ledger is still open.
C6_Witness ==
    /\ pc = "pass1"
    /\ i = 2
    /\ calls # <<>>
    /\ LastCall.outcome = FOUND
    /\ LastCall.target = 2
    /\ Len(processed_a) = 2
    /\ Len(processed_b) = 2
    /\ ~processed_a[2].matched
    /\ ~processed_b[1].matched

(* C7.  An entry whose date does not parse is never matched, is in no      *)
(* bucket of its ledger's index, and its row is MISSING in the result, in  *)
(* either ledger and whatever the other records are.                       *)
C7_UndatedMissing ==
    /\ \A k \in 1..Len(processed_a) :
           parse_date(processed_a[k].original_row[1]) = NoneDate =>
               /\ ~processed_a[k].matched
               /\ processed_a[k].status = MISSING
               /\ \A key \in DOMAIN indexed_a : \A n \in 1..Len(indexed_a[key]) :
                      indexed_a[key][n][2] # k
               /\ pc = "done" => StatusOf(result_a[k]) = MISSING
    /\ \A k \in 1..Len(processed_b) :
           parse_date(processed_b[k].original_row[1]) = NoneDate =>
               /\ ~processed_b[k].matched
               /\ processed_b[k].status = MISSING
               /\ \A key \in DOMAIN indexed_b : \A n \in 1..Len(indexed_b[key]) :
                      indexed_b[key][n][2] # k
               /\ pc = "done" => StatusOf(result_b[k]) = MISSING
    /\ pc = "done" =>
           /\ \A k \in 1..Len(result_a) :
                  result_a[k][1] = processed_a[k].original_row[1]
           /\ \A k \in 1..Len(result_b) :
                  result_b[k][1] = processed_b[k].original_row[1]

\* C7's case: an undated record of A whose key has an open dated candidate
\* in B, and an undated record of B of the same key: all MISSING at return.
C7_Witness ==
    /\ pc = "done"
    /\ Len(result_a) = 1
    /\ Len(result_b) = 2
    /\ parse_date(result_a[1][1]) = NoneDate
    /\ parse_date(result_b[1][1]) # NoneDate
    /\ parse_date(result_b[2][1]) = NoneDate
    /\ create_index_key(result_a[1]) = create_index_key(result_b[1])
    /\ create_index_key(result_a[1]) = create_index_key(result_b[2])
    /\ StatusOf(result_b[1]) = MISSING

\* what the claim says field j of the normalized row of a raw row is
ExpectedField(raw, j) ==
    IF ~raw.isSeq THEN <<>>
    ELSE IF j > Len(raw.cells) THEN <<>>
    ELSE IF raw.cells[j].isNone THEN <<>>
    ELSE Strip(raw.cells[j].str)

\* a result row of exactly five fields: the four expected ones and a status
WellFormedRow(result_row, raw) ==
    /\ DOMAIN result_row = 1..(NumFields + 1)
    /\ \A j \in 1..NumFields : result_row[j] = ExpectedField(raw, j)
    /\ StatusOf(result_row) \in {FOUND, MISSING}

\* how far the statement at pc is from the return
StepsToReturn(at) ==
    CASE at = "preprocess" -> 6
      [] at = "index_b"    -> 5
      [] at = "index_a"    -> 4
      [] at = "pass1"      -> 3
      [] at = "pass2"      -> 2
      [] at = "result"     -> 1
      [] OTHER             -> 0

(* C8.  On raw rows of any shape (not a list, empty, short, long, None     *)
(* cells, a date or an amount that does not parse) no step of the run      *)
(* raises an error, every step brings the return nearer (a later           *)
(* statement, or the next iteration of a loop over a ledger), and at the   *)
(* return every result row has exactly five string fields: a missing       *)
(* trailing cell and a None cell give the empty string, cells after the    *)
(* fourth are dropped, a row that is not a list gives four empty strings.  *)
C8_NoErrorWellFormed ==
    [][ /\ pc' # "error"
        /\ \/ StepsToReturn(pc') < StepsToReturn(pc)
           \/ /\ pc' = pc
              /\ i' = i + 1
              /\ \/ pc = "pass1" /\ i <= Len(transactions_a)
                 \/ pc = "pass2" /\ i <= Len(transactions_b)
        /\ pc' = "done" =>
               /\ Len(result_a') = Len(transactions_a)
               /\ Len(result_b') = Len(transactions_b)
               /\ \A k \in 1..Len(result_a') :
                      WellFormedRow(result_a'[k], transactions_a[k])
               /\ \A k \in 1..Len(result_b') :
                      WellFormedRow(result_b'[k], transactions_b[k])
      ]_vars

\* C8's case: a row that is not a list against a row of six cells with a
\* None among them, returned as five fields each.
C8_Witness ==
    /\ pc = "done"
    /\ transactions_a = <<NotARow>>
    /\ Len(transactions_b) = 1
    /\ Len(transactions_b[1].cells) = 6
    /\ result_a = <<<<<<>>, <<>>, <<>>, <<>>, MISSING>>>>
    /\ result_b = <<<<D_2024_01_02, S_Sales, S_100_00, S_Alice, MISSING>>>>

(* C9.  A call of reconcile_accounts never writes to the caller's ledgers, *)
(* and a second call on the same ledgers returns what the first returned.  *)
C9_RerunSameResult ==
    [][ /\ transactions_a' = transactions_a
        /\ transactions_b' = transactions_b
        /\ (pc' = "done" /\ run' > 1) => <<result_a', result_b'>> = first_result'
      ]_vars

\* C9's case: the second call has returned, with a FOUND and a MISSING row
\* in A, after the first call left its entries marked.
C9_Witness ==
    /\ pc = "done"
    /\ run = 2
    /\ Len(result_a) = 2
    /\ StatusOf(result_a[1]) = FOUND
    /\ StatusOf(result_a[2]) = MISSING
    /\ first_result = <<result_a, result_b>>

\* two characters equal up to letter case
SameLetter(c, d) ==
    \/ c = d
    \/ \E k \in 1..26 : {c, d} = {UpperChars[k], LowerChars[k]}

\* two strings equal ignoring letter case
EqIgnoreCase(s, t) ==
    /\ Len(s) = Len(t)
    /\ \A k \in 1..Len(s) : SameLetter(s[k], t[k])

\* two amounts equal after normalization
AmountsEqual(x, y) ==
    IF ParseFloat(x).ok /\ ParseFloat(y).ok
    THEN FormatFixed(ParseFloat(x)) = FormatFixed(ParseFloat(y))
    ELSE ~ParseFloat(x).ok /\ ~ParseFloat(y).ok /\ x = y

\* candidate-equal records: department, amount and beneficiary, not the date
CandidateEqual(row1, row2) ==
    /\ EqIgnoreCase(row1[2], row2[2])
    /\ AmountsEqual(row1[3], row2[3])
    /\ EqIgnoreCase(row1[4], row2[4])

(* C10.  Two records have the same key, and so fall under the same key of  *)
(* the two indices, exactly when their departments are equal ignoring      *)
(* case, their beneficiaries are equal ignoring case, and their amounts    *)
(* are equal after normalization: the same six-decimal rendering when      *)
(* both parse, the same text when neither parses, never equal when only    *)
(* one parses.  The date has no part in it.                                *)
C10_KeyEquality ==
    (pc \in {"pass1", "pass2", "result", "done"}
        /\ Len(processed_a) = 1 /\ Len(processed_b) = 1) =>
        LET row_a == processed_a[1].original_row
            row_b == processed_b[1].original_row
        IN  /\ DOMAIN indexed_a = {create_index_key(row_a)}
            /\ DOMAIN indexed_b = {create_index_key(row_b)}
            /\ (DOMAIN indexed_a = DOMAIN indexed_b) <=> CandidateEqual(row_a, row_b)

\* C10's case: two records that differ in date, in the case of department
\* and beneficiary and in the writing of the amount, under one key.
C10_Witness ==
    /\ pc = "done"
    /\ result_a = <<<<D_2024_01_01, S_Sales, S_100, S_Alice, FOUND>>>>
    /\ result_b = <<<<D_2024_01_02, S_SALES, S_100_00, S_ALICE, FOUND>>>>
    /\ DOMAIN indexed_a = DOMAIN indexed_b

-----------------------------------------------------------------------------
(* last_lines (src/last_lines.py).                                         *)
(*                                                                         *)
(* A bytes object is a sequence of bytes, an ASCII byte written as its     *)
(* character and the two bytes of U+00E9 as "C3" and "A9"; a decoded str   *)
(* is a sequence of characters, U+00E9 written "U+00E9".  The files are    *)
(* UTF-8 text over the characters of FileChars.                            *)

LF == "\n"

CR == "\r"

\* the two bytes of the UTF-8 encoding of U+00E9, and the character
LeadByte == "C3"

ContByte == "A9"

EAcute == "U+00E9"

\* line 26: bytes.decode('utf-8') raises UnicodeDecodeError unless every
\* lead byte is followed by a continuation byte and every continuation byte
\* follows a lead byte
Decodable(bytes) ==
    \A k \in 1..Len(bytes) :
        /\ bytes[k] = LeadByte => (k < Len(bytes) /\ bytes[k + 1] = ContByte)
        /\ bytes[k] = ContByte => (k > 1 /\ bytes[k - 1] = LeadByte)

\* bytes.decode('utf-8') of decodable bytes
RECURSIVE DecodeFrom(_, _)
DecodeFrom(bytes, k) ==
    IF k > Len(bytes) THEN <<>>
    ELSE IF bytes[k] = LeadByte THEN <<EAcute>> \o DecodeFrom(bytes, k + 2)
    ELSE <<bytes[k]>> \o DecodeFrom(bytes, k + 1)

Decode(bytes) == DecodeFrom(bytes, 1)

\* line 40: str.encode('utf-8')
RECURSIVE EncodeFrom(_, _)
EncodeFrom(str, k) ==
    IF k > Len(str) THEN <<>>
    ELSE IF str[k] = EAcute
         THEN <<LeadByte, ContByte>> \o EncodeFrom(str, k + 1)
    ELSE <<str[k]>> \o EncodeFrom(str, k + 1)

Encode(str) == EncodeFrom(str, 1)

\* the position where the line that starts at k ends: at its "\n", its
\* "\r\n" or its lone "\r", or at the end of the string
RECURSIVE LineEndFrom(_, _)
LineEndFrom(str, k) ==
    IF k >= Len(str) THEN Len(str)
    ELSE IF str[k] = LF THEN k
    ELSE IF str[k] = CR THEN (IF str[k + 1] = LF THEN k + 1 ELSE k)
    ELSE LineEndFrom(str, k + 1)

\* the lines of str from position k on, each through position last
RECURSIVE SplitLinesFrom(_, _, _)
SplitLinesFrom(str, k, last) ==
    IF k > Len(str) THEN <<>>
    ELSE <<SubSeq(str, k, last)>>
         \o SplitLinesFrom(str, last + 1, LineEndFrom(str, last + 1))

\* line 33: str.splitlines(keepends=True)
splitlines(str) == SplitLinesFrom(str, 1, LineEndFrom(str, 1))

\* line.endswith(('\n', '\r'))
EndsWithNewline(line) == Len(line) > 0 /\ line[Len(line)] \in {LF, CR}

\* line 36: the lines that end with a terminator or hold more than blanks
KeptLines(lines) ==
    SelectSeq(lines, LAMBDA line : EndsWithNewline(line) \/ Strip(line) # <<>>)

\* lines 48-55: the terminator of a line normalised to one "\n"
NormalizedLine(line) ==
    LET n == Len(line)
    IN  IF n >= 2 /\ line[n - 1] = CR /\ line[n] = LF
        THEN Append(SubSeq(line, 1, n - 2), LF)
        ELSE IF n >= 1 /\ line[n] = CR THEN Append(SubSeq(line, 1, n - 1), LF)
        ELSE IF n >= 1 /\ line[n] = LF THEN line
        ELSE Append(line, LF)

\* line 46: reversed(lines)
Reversed(seq) == [k \in 1..Len(seq) |-> seq[Len(seq) + 1 - k]]

\* lines 46-57: what one block yields, last line first
YieldedOf(lines) ==
    Reversed([k \in 1..Len(lines) |-> NormalizedLine(lines[k])])

\* lines 39-43: the first line of the block is carried when it has no
\* terminator, and nothing is carried otherwise
CarriesFirst(lines) == lines # <<>> /\ ~EndsWithNewline(lines[1])

\* line 64: str.replace('\r\n', '\n').replace('\r', '\n')
RECURSIVE ReplacedFrom(_, _)
ReplacedFrom(str, k) ==
    IF k > Len(str) THEN <<>>
    ELSE IF str[k] = CR /\ k < Len(str) /\ str[k + 1] = LF
         THEN <<LF>> \o ReplacedFrom(str, k + 2)
    ELSE IF str[k] = CR THEN <<LF>> \o ReplacedFrom(str, k + 1)
    ELSE <<str[k]>> \o ReplacedFrom(str, k + 1)

\* lines 62-66: the line made of what is left in carry
LastLineOf(str) ==
    LET line == ReplacedFrom(str, 1)
    IN  IF Len(line) > 0 /\ line[Len(line)] = LF THEN line ELSE Append(line, LF)

\* Longest file, in characters.
MaxFileLen == 4

\* Largest buffer_size.
MaxBufferSize == 4

\* the characters of the files
FileChars == {"a", " ", LF, CR, EAcute}

\* reconcile_accounts has not been called
ReconcileIdle ==
    /\ transactions_a = <<>>
    /\ transactions_b = <<>>
    /\ processed_a = <<>>
    /\ processed_b = <<>>
    /\ indexed_a = EmptyIndex
    /\ indexed_b = EmptyIndex
    /\ pc = "idle"
    /\ i = 0
    /\ result_a = <<>>
    /\ result_b = <<>>
    /\ calls = <<>>
    /\ run = 1
    /\ first_result = <<>>

\* last_lines(filename, buffer_size) is called on a file of UTF-8 text
InitLastLines ==
    /\ ReconcileIdle
    /\ ComputedIdle
    /\ \E text \in SeqsUpTo(FileChars, MaxFileLen), size \in 1..MaxBufferSize :
           /\ file_bytes = Encode(text)
           /\ buffer_size = size
    /\ remaining = 0
    /\ carry = <<>>
    /\ ll_pc = "open"
    /\ yielded = <<>>

\* lines 10-14
Open ==
    /\ ll_pc = "open"
    /\ remaining' = Len(file_bytes)
    /\ carry' = <<>>
    /\ ll_pc' = "loop"
    /\ UNCHANGED <<file_bytes, buffer_size, yielded>>
    /\ UNCHANGED <<transactions_a, transactions_b, processed_a, processed_b,
                   indexed_a, indexed_b, pc, i, result_a, result_b, calls, run,
                   first_result, cp_vars>>

\* lines 32-57 for the decoded block
BlockLines(decoded) ==
    LET lines == KeptLines(splitlines(decoded))
    IN  IF CarriesFirst(lines)
        THEN /\ carry' = Encode(lines[1])
             /\ yielded' = yielded \o YieldedOf(Tail(lines))
        ELSE /\ carry' = <<>>
             /\ yielded' = yielded \o YieldedOf(lines)

\* lines 22-57 for the block read
BlockRead(full_chunk) ==
    IF Decodable(full_chunk)
    THEN BlockLines(Decode(full_chunk))
    ELSE carry' = full_chunk /\ UNCHANGED yielded

\* lines 17-57: one iteration of the while loop
ReadBlock ==
    /\ ll_pc = "loop"
    /\ remaining > 0
    /\ LET read_size == IF buffer_size < remaining THEN buffer_size
                        ELSE remaining
       IN  /\ remaining' = remaining - read_size
           /\ BlockRead(SubSeq(file_bytes, remaining - read_size + 1, remaining)
                        \o carry)
    /\ UNCHANGED <<file_bytes, buffer_size, ll_pc>>
    /\ UNCHANGED <<transactions_a, transactions_b, processed_a, processed_b,
                   indexed_a, indexed_b, pc, i, result_a, result_b, calls, run,
                   first_result, cp_vars>>

\* lines 59-69: the loop has ended, what is left in carry is the last line
Flush ==
    /\ ll_pc = "loop"
    /\ remaining = 0
    /\ yielded' = IF carry # <<>> /\ Decodable(carry)
                  THEN Append(yielded, LastLineOf(Decode(carry)))
                  ELSE yielded
    /\ ll_pc' = "done"
    /\ UNCHANGED <<file_bytes, buffer_size, remaining, carry>>
    /\ UNCHANGED <<transactions_a, transactions_b, processed_a, processed_b,
                   indexed_a, indexed_b, pc, i, result_a, result_b, calls, run,
                   first_result, cp_vars>>

NextLastLines ==
    \/ Open
    \/ ReadBlock
    \/ Flush

\* one call of last_lines, the generator run to its end
SpecLastLines == InitLastLines /\ [][NextLastLines]_vars

\* the lines of the file last to first, as tac gives them, each ending in "\n"
LinesReversed ==
    LET lines == splitlines(Decode(file_bytes))
    IN  Reversed([k \in 1..Len(lines) |-> NormalizedLine(lines[k])])

\* the line ends with "\n" and holds no other line terminator
EndsWithSingleLF(line) ==
    /\ Len(line) > 0
    /\ line[Len(line)] = LF
    /\ \A k \in 1..(Len(line) - 1) : line[k] \notin {LF, CR}

\* C11: once the generator is exhausted, the values yielded are the lines
\* of the file in reverse order, the k-th value being the k-th line from the
\* end, every line yielded once and whole, and each ending in a single "\n",
\* whatever the buffer_size.
C11_LinesInReverse ==
    ll_pc = "done" =>
        /\ yielded = LinesReversed
        /\ \A k \in 1..Len(yielded) : EndsWithSingleLF(yielded[k])

-----------------------------------------------------------------------------
(* computed_property (src/computed_property.py), used by a class           *)
(* statement                                                               *)
(*                                                                         *)
(*     class Model:                                                        *)
(*         @computed_property(<dependencies>)                              *)
(*         def total(self): ...      # reads a, b and c                    *)
(*         @total.setter             # when the declaration has a setter   *)
(*         def total(self, value): ...  # assigns one attribute            *)
(*         @total.deleter            # when it has a deleter               *)
(*         def total(self): ...      # removes one attribute               *)
(*                                                                         *)
(* and by one instance of Model.  A name is a str.  The descriptor and the *)
(* instance are the functions from the names of the slots or attributes    *)
(* that are set to their values; an attribute value is "None", "1" or "2", *)
(* and a tuple of dependency values is the function from each dependency   *)
(* to its value, the iteration order of the set of line 19 being fixed.    *)
(* A slot that holds a function or None holds TRUE or FALSE here.          *)

\* Most names given to computed_property(...).
MaxDeps == 2

\* Number of operations on the instance.
MaxOps == 4

\* "total", the name the property has in its class
PropertyName == <<"t", "o", "t", "a", "l">>

\* line 61: "_cached_"
CachedPrefix == <<"_", "c", "a", "c", "h", "e", "d", "_">>

\* line 62: "_state_"
StatePrefix == <<"_", "s", "t", "a", "t", "e", "_">>

\* the names given to computed_property(...), some with blanks around them
DeclaredNames == {<<"a">>, <<" ", "a">>, <<"b">>, <<"b", " ">>, <<"c">>}

\* the attributes of the instance that the program assigns
Attributes == {<<"a">>, <<"b">>, <<"c">>}

\* the values they take
Values == {"None", "1", "2"}

\* line 39: the default of getattr(instance, dep, None)
PyNone == "None"

\* hasattr(obj, name)
hasattr(obj, name) == name \in DOMAIN obj

\* getattr(obj, name, None)
getattr(obj, name) == IF hasattr(obj, name) THEN obj[name] ELSE PyNone

\* setattr(obj, name, value), object.__setattr__ and obj.name = value
setattr(obj, name, value) ==
    [n \in (DOMAIN obj) \cup {name} |-> IF n = name THEN value ELSE obj[n]]

\* delattr(obj, name)
delattr(obj, name) == [n \in (DOMAIN obj) \ {name} |-> obj[n]]

\* an object with nothing set
NoValue == [n \in {} |-> PyNone]

\* a class statement: the names given to computed_property, whether the
\* descriptor class is computed_property itself or a subclass of it that
\* declares no __slots__, and whether a setter and a deleter are given
Declarations(subclassed) ==
    [ dependencies : SeqsUpTo(DeclaredNames, MaxDeps),
      subclass     : {subclassed},
      setter       : BOOLEAN,
      deleter      : BOOLEAN ]

\* lines 9-12: __slots__ leaves an instance of computed_property without a
\* __dict__, and the docstring of lines 4-8 makes __doc__ an attribute of
\* the class: the instance takes no attribute __doc__.  An instance of a
\* subclass without __slots__ has a __dict__ and takes it.
TakesDoc(decl) == decl.subclass

\* what an operation leaves in last_op
Op(kind, name, called, stale, raised, value) ==
    [kind |-> kind, name |-> name, called |-> called, stale |-> stale,
     raised |-> raised, value |-> value]

\* the class statement reaches the decorator: computed_property(...) is
\* called
Declared(decl) ==
    /\ ReconcileIdle
    /\ LastLinesIdle
    /\ declaration = decl
    /\ cp_pc = "dependencies"
    /\ descriptor = NoValue
    /\ instance = NoValue
    /\ ops = 0
    /\ func_calls = 0
    /\ computed_for = [deps |-> NoValue, value |-> NoValue]
    /\ touched = FALSE
    /\ last_op = Op("new", <<>>, FALSE, FALSE, FALSE, NoValue)

\* the decorator as the docstring uses it
InitComputed == \E decl \in Declarations(FALSE) : Declared(decl)

\* the decorator used through a subclass that declares no __slots__
InitSubclass == \E decl \in Declarations(TRUE) : Declared(decl)

\* what a step of the class statement leaves alone
DeclarationFrame ==
    /\ UNCHANGED <<declaration, instance, ops, func_calls, computed_for,
                   touched, last_op>>
    /\ UNCHANGED <<transactions_a, transactions_b, processed_a, processed_b,
                   indexed_a, indexed_b, pc, i, result_a, result_b, calls, run,
                   first_result, ll_vars>>

\* line 19: set(dep.strip() for dep in dependencies)
StrippedSet(dependencies) ==
    {Strip(dependencies[k]) : k \in 1..Len(dependencies)}

\* line 19
InitDependencies ==
    /\ cp_pc = "dependencies"
    /\ descriptor' = setattr(descriptor, "dependencies",
                             StrippedSet(declaration.dependencies))
    /\ cp_pc' = "fields"
    /\ DeclarationFrame

\* lines 20-26: the other slots set to None
FieldsCleared(desc) ==
    [n \in (DOMAIN desc) \cup {"_func", "_getter", "_setter", "_deleter",
                               "name", "_attr_name", "_state_name"} |->
        IF n \in {"_func", "_getter", "_setter", "_deleter"} THEN FALSE
        ELSE IF n \in {"name", "_attr_name", "_state_name"} THEN <<>>
        ELSE desc[n]]

\* lines 20-26
InitFields ==
    /\ cp_pc = "fields"
    /\ descriptor' = FieldsCleared(descriptor)
    /\ cp_pc' = "doc"
    /\ DeclarationFrame

\* line 27: self.__doc__ = None raises AttributeError on an object that
\* takes no attribute __doc__, and the class statement ends there
InitDoc ==
    /\ cp_pc = "doc"
    /\ IF TakesDoc(declaration)
       THEN /\ descriptor' = setattr(descriptor, "__doc__", PyNone)
            /\ cp_pc' = "decorate"
       ELSE /\ cp_pc' = "raised"
            /\ UNCHANGED descriptor
    /\ DeclarationFrame

\* lines 29-53, 72-84 and 55-62: __call__, setter, deleter and __set_name__
Decorated(desc, decl) ==
    [n \in DOMAIN desc |->
        IF n \in {"_func", "_getter"} THEN TRUE
        ELSE IF n = "_setter" THEN decl.setter
        ELSE IF n = "_deleter" THEN decl.deleter
        ELSE IF n = "name" THEN PropertyName
        ELSE IF n = "_attr_name" THEN CachedPrefix \o PropertyName
        ELSE IF n = "_state_name" THEN StatePrefix \o PropertyName
        ELSE desc[n]]

\* the rest of the class statement, and Model() creating the instance
Decorate ==
    /\ cp_pc = "decorate"
    /\ descriptor' = Decorated(descriptor, declaration)
    /\ cp_pc' = "live"
    /\ DeclarationFrame

\* the decorated function: what it returns tells every attribute it read
Func(inst) == [n \in Attributes |-> getattr(inst, n)]

\* line 39: tuple(getattr(instance, dep, None) for dep in self.dependencies)
current_state(desc, inst) ==
    [dep \in desc.dependencies |-> getattr(inst, dep)]

\* lines 41-44: last_state != current_state, last_state being None when
\* the instance has no stored state
StateChanged(desc, inst, state) ==
    \/ ~hasattr(inst, desc._state_name)
    \/ inst[desc._state_name] # state

\* lines 45-47: the function is called, its value and the state are stored
Recomputed(desc, inst, state) ==
    setattr(setattr(inst, desc._attr_name, Func(inst)), desc._state_name, state)

\* lines 39-47: the instance after the getter has run
AfterGetter(desc, inst, state) ==
    IF StateChanged(desc, inst, state) THEN Recomputed(desc, inst, state)
    ELSE inst

\* lines 86-92: _invalidate_cache
Invalidated(desc, inst) ==
    LET without_value ==
            IF hasattr(inst, desc._attr_name)
            THEN delattr(inst, desc._attr_name) ELSE inst
    IN  IF hasattr(without_value, desc._state_name)
        THEN delattr(without_value, desc._state_name) ELSE without_value

\* what every operation on the instance leaves alone
ComputedFrame ==
    /\ cp_pc = "live"
    /\ ops < MaxOps
    /\ ops' = ops + 1
    /\ UNCHANGED <<declaration, cp_pc, descriptor>>
    /\ UNCHANGED <<transactions_a, transactions_b, processed_a, processed_b,
                   indexed_a, indexed_b, pc, i, result_a, result_b, calls, run,
                   first_result, ll_vars>>

\* instance.<name> = value, for an attribute that is not the property
Assign ==
    /\ ComputedFrame
    /\ \E name \in Attributes, value \in Values :
           /\ instance' = setattr(instance, name, value)
           /\ last_op' = Op("assign", name, FALSE, FALSE, FALSE, NoValue)
    /\ UNCHANGED <<func_calls, computed_for, touched>>

\* history: the values the declared dependencies have on the instance
DependencyValues ==
    [dep \in StrippedSet(declaration.dependencies) |->
        IF dep \in DOMAIN instance THEN instance[dep] ELSE PyNone]

\* the history of a read that called the function or not and left the
\* instance as after
ReadRecorded(called, after) ==
    /\ func_calls' = IF called THEN func_calls + 1 ELSE func_calls
    /\ computed_for' = IF called
                       THEN [deps |-> DependencyValues, value |-> Func(instance)]
                       ELSE computed_for
    /\ touched' = IF called THEN FALSE ELSE touched
    /\ last_op' =
           IF hasattr(after, descriptor._attr_name)
           THEN Op("read", PropertyName, called,
                   DependencyValues # computed_for.deps, FALSE,
                   after[descriptor._attr_name])
           ELSE Op("read", PropertyName, called,
                   DependencyValues # computed_for.deps, TRUE, NoValue)

\* the getter run on the state read at line 39
ReadWith(state) ==
    /\ instance' = AfterGetter(descriptor, instance, state)
    /\ ReadRecorded(StateChanged(descriptor, instance, state),
                    AfterGetter(descriptor, instance, state))

\* instance.total: __get__ (lines 64-70) and the getter (lines 37-50); line
\* 50 raises AttributeError when the instance has no cached value
Read ==
    /\ ComputedFrame
    /\ ReadWith(current_state(descriptor, instance))

\* instance.total = value: __set__ (lines 94-101), the setter assigning the
\* value to one attribute
SetProperty ==
    /\ ComputedFrame
    /\ IF descriptor._setter
       THEN \E name \in Attributes, value \in Values :
               /\ instance' = Invalidated(descriptor,
                                          setattr(instance, name, value))
               /\ last_op' = Op("set", name, FALSE, FALSE, FALSE, NoValue)
               /\ touched' = TRUE
       ELSE /\ last_op' = Op("set", <<>>, FALSE, FALSE, TRUE, NoValue)
            /\ UNCHANGED <<instance, touched>>
    /\ UNCHANGED <<func_calls, computed_for>>

\* del instance.total: __delete__ (lines 103-110), the deleter removing
\* one attribute when the instance has it
DeleteProperty ==
    /\ ComputedFrame
    /\ IF descriptor._deleter
       THEN \E name \in Attributes :
               /\ instance' = Invalidated(descriptor,
                                  IF hasattr(instance, name)
                                  THEN delattr(instance, name) ELSE instance)
               /\ last_op' = Op("delete", name, FALSE, FALSE, FALSE, NoValue)
               /\ touched' = TRUE
       ELSE /\ last_op' = Op("delete", <<>>, FALSE, FALSE, TRUE, NoValue)
            /\ UNCHANGED <<instance, touched>>
    /\ UNCHANGED <<func_calls, computed_for>>

\* the class statement as far as it gets
NextComputed ==
    \/ InitDependencies
    \/ InitFields
    \/ InitDoc

\* the class statement, then up to MaxOps operations on the instance
NextSubclass ==
    \/ NextComputed
    \/ Decorate
    \/ Assign
    \/ Read
    \/ SetProperty
    \/ DeleteProperty

\* a class statement that uses computed_property as its docstring says
SpecComputed == InitComputed /\ [][NextComputed]_vars

\* a class statement that uses a subclass of it without __slots__, and one
\* instance of the class
SpecSubclass == InitSubclass /\ [][NextSubclass]_vars

-----------------------------------------------------------------------------
(* Claims about computed_property. *)

\* the step leaves a descriptor: computed_property(...) has not raised
DescriptorBuilt == cp_pc' # "raised"

\* a value of the property is cached: the function has been called and the
\* property has not been set or deleted since
SomethingCached == func_calls > 0 /\ ~touched

\* the next read has to call the function
MustCompute == ~SomethingCached \/ DependencyValues # computed_for.deps

\* the step is the operation of this kind
IsOp(kind) == ops' = ops + 1 /\ last_op'.kind = kind

\* a read calls the function exactly when it has to, and returns what the
\* function returns or what is cached
ReadComputesIffStale ==
    IsOp("read") =>
        /\ last_op'.called <=> MustCompute
        /\ func_calls' = IF MustCompute THEN func_calls + 1 ELSE func_calls
        /\ ~last_op'.raised
        /\ last_op'.value = IF MustCompute THEN Func(instance)
                            ELSE computed_for.value
        /\ ~MustCompute => instance' = instance

\* an assignment to an attribute that is no declared dependency does not
\* make the next read compute
OtherAssignKeepsCache ==
    (IsOp("assign") /\ last_op'.name \notin StrippedSet(declaration.dependencies))
        => (MustCompute' <=> MustCompute)

\* C12: computed_property(<dependencies>) gives a property of which a read
\* calls the decorated function exactly when nothing is cached or the
\* values of the declared dependencies differ from those of the last
\* computation, and returns the cached value without a call otherwise; an
\* assignment to an attribute that is no declared dependency causes no
\* recomputation.
C12_ReadComputesIffStale ==
    [][DescriptorBuilt /\ ReadComputesIffStale /\ OtherAssignKeepsCache]_vars

\* setting the property runs the setter and leaves the instance with
\* neither the cached value nor the stored state
SetInvalidates ==
    (IsOp("set") /\ declaration.setter) =>
        /\ ~last_op'.raised
        /\ last_op'.name \in DOMAIN instance'
        /\ DOMAIN instance' \subseteq Attributes
        /\ \A n \in Attributes \ {last_op'.name} :
               /\ (n \in DOMAIN instance') = (n \in DOMAIN instance)
               /\ n \in DOMAIN instance => instance'[n] = instance[n]

\* deleting the property runs the deleter and does the same
DeleteInvalidates ==
    (IsOp("delete") /\ declaration.deleter) =>
        /\ ~last_op'.raised
        /\ DOMAIN instance' = (DOMAIN instance \cap Attributes) \ {last_op'.name}
        /\ \A n \in DOMAIN instance' : instance'[n] = instance[n]

\* the read that follows calls the function, whatever the dependencies are
ReadAfterInvalidation ==
    (IsOp("read") /\ touched) =>
        /\ last_op'.called
        /\ func_calls' = func_calls + 1
        /\ ~last_op'.raised
        /\ last_op'.value = Func(instance)

\* C13: computed_property(<dependencies>) gives a property of which, when
\* it has a setter or a deleter, an assignment or a deletion runs that
\* setter or deleter and then removes the cached value and the stored
\* dependency state from the instance, so that the next read calls the
\* decorated function again even when no declared dependency changed.
C13_SetDeleteInvalidates ==
    [][DescriptorBuilt /\ SetInvalidates /\ DeleteInvalidates
       /\ ReadAfterInvalidation]_vars

-----------------------------------------------------------------------------
(* Claims about the order of the matching. *)

\* the parsed date of an entry's record
DateOf(entry) == parse_date(entry.original_row[1])

\* the IndexKey of an entry's record
KeyOf(entry) == create_index_key(entry.original_row)

\* both dates parse and are within the tolerance of each other
DatesWithinTolerance(date1, date2) ==
    /\ date1 # NoneDate
    /\ date2 # NoneDate
    /\ Abs(date1 - date2) <= DateTolerance

\* two entries that may be matched: equal keys, parseable dates at most
\* one day apart
Compatible(entry1, entry2) ==
    /\ DatesWithinTolerance(DateOf(entry1), DateOf(entry2))
    /\ KeyOf(entry1) = KeyOf(entry2)

\* the positions of the open entries of targets that source may be matched
\* with
OpenCandidates(source, targets) ==
    {k \in 1..Len(targets) :
        ~targets[k].matched /\ Compatible(source, targets[k])}

\* t is the candidate of the earliest date and, at that date, of the lowest
\* position
FirstOf(candidates, targets, t) ==
    /\ t \in candidates
    /\ \A k \in candidates :
           \/ DateOf(targets[t]) < DateOf(targets[k])
           \/ DateOf(targets[t]) = DateOf(targets[k]) /\ t <= k

\* the call made in this step marks the first open candidate of its source
MarksFirstCandidate(call) ==
    call.target # NoTarget =>
        IF call.phase = 1
        THEN FirstOf(OpenCandidates(processed_a[call.source], processed_b),
                     processed_b, call.target)
        ELSE FirstOf(OpenCandidates(processed_b[call.source], processed_a),
                     processed_a, call.target)

\* C14: a call of find_and_mark that returns FOUND marks, among the entries
\* of the other ledger that are open at the time of the call, have the
\* source's key and a parseable date within one day of the source's, the
\* one of the earliest date and, among those of that date, of the lowest
\* list position.
C14_FirstInBucketOrder ==
    [][Len(calls') = Len(calls) + 1 => MarksFirstCandidate(calls'[Len(calls')])]_vars

\* C14's case: a source dated 2024-01-02 has just taken the candidate
\* dated 2024-01-01 although a candidate of its own date is open.
C14_Witness ==
    /\ calls # <<>>
    /\ LastCall.phase = 1
    /\ LastCall.target # NoTarget
    /\ DateOf(processed_a[LastCall.source])
           = DateOf(processed_b[LastCall.target]) + 1
    /\ \E k \in 1..Len(processed_b) :
           /\ ~processed_b[k].matched
           /\ Compatible(processed_a[LastCall.source], processed_b[k])
           /\ DateOf(processed_b[k]) = DateOf(processed_a[LastCall.source])

\* the parsed dates of the entries of a ledger, by position
EntryDates(processed) ==
    [k \in 1..Len(processed) |-> DateOf(processed[k])]

\* the IndexKeys of the entries of a ledger, by position
EntryKeys(processed) ==
    [k \in 1..Len(processed) |-> KeyOf(processed[k])]

\* the positions of the entries that have a parseable date and the key
DatedWithKey(dates, keys, key) ==
    {k \in DOMAIN dates : dates[k] # NoneDate /\ keys[k] = key}

\* the keys of the entries that have a parseable date
DatedKeys(dates, keys) ==
    {keys[k] : k \in {n \in DOMAIN dates : dates[n] # NoneDate}}

\* the bucket holds each of the positions once, with the entry's date, by
\* date ascending and by position within a date
BucketHolds(bucket, positions, dates) ==
    /\ Len(bucket) = Cardinality(positions)
    /\ {bucket[n][2] : n \in 1..Len(bucket)} = positions
    /\ \A n \in 1..Len(bucket) : bucket[n][1] = dates[bucket[n][2]]
    /\ \A n, m \in 1..Len(bucket) :
           n < m => \/ bucket[n][1] < bucket[m][1]
                    \/ bucket[n][1] = bucket[m][1] /\ bucket[n][2] < bucket[m][2]

\* the index is the index of the entries of these dates and keys
IndexHolds(index, dates, keys) ==
    /\ DOMAIN index = DatedKeys(dates, keys)
    /\ \A key \in DOMAIN index :
           BucketHolds(index[key], DatedWithKey(dates, keys, key), dates)

\* the index is the index of the ledger
IndexOf(index, processed) ==
    IndexHolds(index, EntryDates(processed), EntryKeys(processed))

\* C15: each index, once built, holds for every IndexKey the positions of
\* the ledger's entries of that key that have a parseable date, each once
\* and in its key's bucket only, by date ascending and in list order within
\* a date; and an index built after Phase 1 from the entries as marked by
\* then is the index built before Phase 1.
C15_IndexContents ==
    /\ (pc = "pass1" /\ i = 1) =>
           /\ IndexOf(indexed_a, processed_a)
           /\ IndexOf(indexed_b, processed_b)
    /\ (pc = "pass2" /\ i = 1) =>
           /\ BuildIndex(processed_a) = indexed_a
           /\ BuildIndex(processed_b) = indexed_b

\* C15's case: Phase 1 has marked an entry of A, a bucket of B's index holds
\* two entries of one date, and a bucket of A's index holds the second
\* entry of A, dated earlier, before the first.
C15_Witness ==
    /\ pc = "pass2"
    /\ i = 1
    /\ \E k \in 1..Len(processed_a) : processed_a[k].matched
    /\ \E key \in DOMAIN indexed_b :
           /\ Len(indexed_b[key]) = 2
           /\ indexed_b[key][1][1] = indexed_b[key][2][1]
    /\ \E key \in DOMAIN indexed_a :
           /\ Len(indexed_a[key]) = 2
           /\ indexed_a[key][1][2] = 2
           /\ indexed_a[key][2][2] = 1

\* the positions of A that Phase 1 marked, and those of B
FoundInPhase1A ==
    {calls[k].source :
        k \in {n \in 1..Len(calls) :
                  calls[n].phase = 1 /\ calls[n].target # NoTarget}}

FoundInPhase1B ==
    {calls[k].target :
        k \in {n \in 1..Len(calls) :
                  calls[n].phase = 1 /\ calls[n].target # NoTarget}}

\* the calls of Phase 2 that returned FOUND
FoundInPhase2 ==
    {k \in 1..Len(calls) : calls[k].phase = 2 /\ calls[k].target # NoTarget}

\* in Phase 1 an entry of A claimed an entry of B that a later entry of A
\* could also have matched, the later entry was left MISSING by Phase 1,
\* and another entry of B was still open after Phase 1
CandidateStolen ==
    \E k \in 1..Len(calls) :
        /\ calls[k].phase = 1
        /\ calls[k].target # NoTarget
        /\ \E later \in (calls[k].source + 1)..Len(processed_a) :
               /\ later \notin FoundInPhase1A
               /\ Compatible(processed_a[later], processed_b[calls[k].target])
        /\ \E other \in 1..Len(processed_b) :
               other # calls[k].target /\ other \notin FoundInPhase1B

\* C16 as stated: where an earlier entry of A has claimed the candidate of
\* a later one and another entry of B is still open, Phase 2 finds a new
\* match and marks entries FOUND that Phase 1 left MISSING.
C16_Phase2FindsMatches ==
    (pc = "done" /\ CandidateStolen) => FoundInPhase2 # {}

\* C16, amended: no call of Phase 2 returns FOUND, so Phase 2 changes no
\* entry and every entry that is FOUND at return was marked in Phase 1,
\* also where an earlier entry of A has claimed the candidate of a later one
\* and another entry of B is still open.
C16_Phase2FindsNothing ==
    /\ FoundInPhase2 = {}
    /\ pc = "done" =>
           /\ FoundRows(result_a) = FoundInPhase1A
           /\ FoundRows(result_b) = FoundInPhase1B

\* C16's case: the run has returned, an earlier entry of A had claimed the
\* candidate of a later one, and Phase 2 has called find_and_mark for an
\* entry of B that was still open.
C16_Witness ==
    /\ pc = "done"
    /\ CandidateStolen
    /\ \E k \in 1..Len(calls) : calls[k].phase = 2

-----------------------------------------------------------------------------
(* Reconciling the rows of A in another order. *)

\* the bijections of 1..n
Orderings(n) ==
    {perm \in [1..n -> 1..n] :
        \A j, k \in 1..n : perm[j] = perm[k] => j = k}

\* the rows of a ledger in the order perm
Permuted(ledger, perm) == [k \in 1..Len(ledger) |-> ledger[perm[k]]]

\* Ledger rows of one key on three days in a row.
ReorderRows ==
    { Row4(D_2024_01_01, S_Sales, S_100_00, S_Alice),
      Row4(D_2024_01_02, S_sales, S_100, S_ALICE),
      Row4(D_2024_01_03, S_Sales, S_100_0, S_Alice) }

InitReorder ==
    \E ledger_a \in SeqsUpTo(ReorderRows, MaxLen),
       ledger_b \in SeqsUpTo(ReorderRows, MaxLen) :
        Entered(ledger_a, ledger_b)

\* the caller calls reconcile_accounts once more, on the rows of A in
\* another order and on B.  As in Rerun the locals keep what the first call
\* left.
Reorder ==
    /\ pc = "done"
    /\ run = 1
    /\ \E perm \in Orderings(Len(transactions_a)) :
           transactions_a' = Permuted(transactions_a, perm)
    /\ first_result' = <<result_a, result_b>>
    /\ run' = run + 1
    /\ calls' = <<>>
    /\ pc' = "preprocess"
    /\ UNCHANGED <<transactions_b, processed_a, processed_b, indexed_a,
                   indexed_b, i, result_a, result_b>>
    /\ UNCHANGED <<ll_vars, cp_vars>>

NextReorder == Next \/ Reorder

\* one call on A and B, then one on a reordering of A and B
SpecReorder == InitReorder /\ [][NextReorder]_vars

\* the number of times x occurs in seq
CountIn(seq, x) == Cardinality({k \in 1..Len(seq) : seq[k] = x})

\* two lists of result rows are equal as multisets
SameMultiset(rows1, rows2) ==
    \A x \in {rows1[k] : k \in 1..Len(rows1)} \cup {rows2[k] : k \in 1..Len(rows2)} :
        CountIn(rows1, x) = CountIn(rows2, x)

\* the record of a result row
RecordOf(result_row) == SubSeq(result_row, 1, NumFields)

\* the entry a result row was made from, as far as its record goes
EntryOf(result_row) == NewEntry(RowOf([k \in 1..NumFields |-> Cell(result_row[k])]))

\* the record that comes first, in a result for A, among those that may be
\* matched with the entry b (<<>>: none may)
FirstCompatibleRecord(result, b) ==
    LET fits == {k \in 1..Len(result) : Compatible(EntryOf(result[k]), b)}
    IN  IF fits = {} THEN <<>>
        ELSE RecordOf(result[CHOOSE k \in fits : \A m \in fits : k <= m])

\* C17: the result depends on the order of the rows of A.  When B holds a
\* single record, reconcile_accounts(A, B) and reconcile_accounts(A', B),
\* A' being the rows of A in another order, give results for A that differ
\* as multisets of (record, status) rows exactly when the record that comes
\* first among those that may be matched with B's record is not the same in
\* A and in A'; with two such records in A, swapping them changes the status
\* of both.
C17_OrderDecides ==
    (pc = "done" /\ run = 2 /\ Len(processed_b) = 1) =>
        (SameMultiset(first_result[1], result_a)
            <=> FirstCompatibleRecord(first_result[1], processed_b[1])
                  = FirstCompatibleRecord(result_a, processed_b[1]))

\* C17's case: B holds a record dated 2024-01-02, A one dated 2024-01-01
\* and one dated 2024-01-03 of the same key; the first of A is FOUND and
\* the second MISSING, in A and in A' alike, so that each record has one
\* status in the first result and the other in the second.
C17_Witness ==
    /\ pc = "done"
    /\ run = 2
    /\ Len(result_b) = 1
    /\ Len(result_a) = 2
    /\ Len(first_result[1]) = 2
    /\ RecordOf(result_a[1]) = RecordOf(first_result[1][2])
    /\ RecordOf(result_a[2]) = RecordOf(first_result[1][1])
    /\ RecordOf(result_a[1]) # RecordOf(result_a[2])
    /\ StatusOf(result_a[1]) = FOUND
    /\ StatusOf(result_a[2]) = MISSING
    /\ StatusOf(first_result[1][1]) = FOUND
    /\ StatusOf(first_result[1][2]) = MISSING
    /\ ~SameMultiset(first_result[1], result_a)

-----------------------------------------------------------------------------
(* Claims about the matching as a whole. *)

\* the two loops have started: the entries are those of this call
Matching == pc \in {"pass1", "pass2", "result", "done"}

\* the positions of a ledger's entries that carry the status FOUND
FoundEntries(processed) ==
    {k \in 1..Len(processed) : processed[k].status = FOUND}

\* C18: every pair find_and_mark has marked, in either phase, by the end of
\* the two loops is made of an entry of A and an entry of B that have equal
\* IndexKeys and parseable dates at most one day apart (the history only
\* grows and the records do not change, so that the pairs are judged once,
\* when the loops are over); and an entry is FOUND, in the lists and in
\* the returned rows, only as a member of such a pair, never on the
\* strength of a partner of another key or a date two or more days away.
C18_MarkedPairsValid ==
    /\ pc = "result" =>
           \A pair \in MarkedPairs :
               /\ pair[1] \in 1..Len(processed_a)
               /\ pair[2] \in 1..Len(processed_b)
               /\ Compatible(processed_a[pair[1]], processed_b[pair[2]])
    /\ Matching =>
           /\ FoundEntries(processed_a) = {pair[1] : pair \in MarkedPairs}
           /\ FoundEntries(processed_b) = {pair[2] : pair \in MarkedPairs}
    /\ pc = "done" =>
           /\ FoundRows(result_a) = {pair[1] : pair \in MarkedPairs}
           /\ FoundRows(result_b) = {pair[2] : pair \in MarkedPairs}

\* C18's case: a call has returned with a pair marked, with an entry of B
\* left out of every pair although an entry of A has its key and a date two
\* days from its own, and with an entry of A left MISSING although an entry
\* of B has its date and another key.
C18_Witness ==
    /\ pc = "done"
    /\ MarkedPairs # {}
    /\ \E a \in 1..Len(processed_a), b \in 1..Len(processed_b) :
           /\ KeyOf(processed_a[a]) = KeyOf(processed_b[b])
           /\ DateOf(processed_a[a]) # NoneDate
           /\ DateOf(processed_b[b]) # NoneDate
           /\ Abs(DateOf(processed_a[a]) - DateOf(processed_b[b])) = 2
           /\ StatusOf(result_b[b]) = MISSING
    /\ \E a \in 1..Len(processed_a), b \in 1..Len(processed_b) :
           /\ KeyOf(processed_a[a]) # KeyOf(processed_b[b])
           /\ DateOf(processed_a[a]) # NoneDate
           /\ DateOf(processed_a[a]) = DateOf(processed_b[b])
           /\ StatusOf(result_a[a]) = MISSING


\* the pairs <<position in A, position in B>> of entries that are both
\* MISSING and may be matched
OpenPairs ==
    {pair \in (1..Len(processed_a)) \X (1..Len(processed_b)) :
        /\ processed_a[pair[1]].status = MISSING
        /\ processed_b[pair[2]].status = MISSING
        /\ Compatible(processed_a[pair[1]], processed_b[pair[2]])}

\* the same pairs, read from the returned rows
OpenResultPairs ==
    {pair \in (1..Len(result_a)) \X (1..Len(result_b)) :
        /\ StatusOf(result_a[pair[1]]) = MISSING
        /\ StatusOf(result_b[pair[2]]) = MISSING
        /\ Compatible(processed_a[pair[1]], processed_b[pair[2]])}

\* C19: the matching is maximal.  At the end of Phase 1, at the end of
\* Phase 2 and in the rows reconcile_accounts returns, no entry of A and
\* entry of B are both
\* MISSING while they have equal IndexKeys and parseable dates at most one
\* day apart.
C19_Maximal ==
    /\ ((pc = "pass2" /\ i = 1) \/ pc = "result") => OpenPairs = {}
    /\ pc = "done" =>
           /\ Len(result_a) = Len(processed_a)
           /\ Len(result_b) = Len(processed_b)
           /\ OpenResultPairs = {}

\* C19's case: Phase 1 has just ended with a pair marked and with an entry
\* of A and an entry of B of one key both MISSING, their dates being two
\* days apart.
C19_Witness ==
    /\ pc = "pass2"
    /\ i = 1
    /\ MarkedPairs # {}
    /\ \E a \in 1..Len(processed_a), b \in 1..Len(processed_b) :
           /\ processed_a[a].status = MISSING
           /\ processed_b[b].status = MISSING
           /\ KeyOf(processed_a[a]) = KeyOf(processed_b[b])
           /\ DateOf(processed_a[a]) # NoneDate
           /\ DateOf(processed_b[b]) # NoneDate
           /\ Abs(DateOf(processed_a[a]) - DateOf(processed_b[b])) = 2


\* the entries of A that the entry b of B was marked with
PartnersOf(b) == {pair[1] : pair \in {p \in MarkedPairs : p[2] = b}}

\* every entry of B that the entry a of A may be matched with is FOUND, with
\* a partner that comes before a in A
LostToEarlier(a) ==
    \A b \in 1..Len(processed_b) :
        Compatible(processed_a[a], processed_b[b]) =>
            /\ StatusOf(result_b[b]) = FOUND
            /\ PartnersOf(b) # {}
            /\ \A partner \in PartnersOf(b) : partner < a

\* C20: list order gives priority in A.  In the final result, an entry a of
\* A with a parseable date is MISSING only if every entry of B with a's
\* IndexKey and a parseable date within one day of a's is FOUND with a
\* partner that comes before a in A's list order.
C20_ListOrderPriority ==
    pc = "done" =>
        \A a \in 1..Len(result_a) :
            (StatusOf(result_a[a]) = MISSING /\ DateOf(processed_a[a]) # NoneDate)
                => LostToEarlier(a)

\* C20's case: an entry of A is MISSING in the final result and an entry of
\* B that it may be matched with went to an earlier entry of A.
C20_Witness ==
    /\ pc = "done"
    /\ \E a \in 1..Len(result_a), b \in 1..Len(result_b) :
           /\ StatusOf(result_a[a]) = MISSING
           /\ Compatible(processed_a[a], processed_b[b])
           /\ \E partner \in PartnersOf(b) : partner < a

=============================================================================
